---- MODULE Spec2Model ----
(***************************************************************************)
(* A model of the interactive console core of my-rust-os: the keyboard     *)
(* decoder (kernel/src/keyboard.rs), the line shell (kernel/src/shell.rs),  *)
(* the system clock (kernel/src/time.rs), the interrupt controller driver  *)
(* (kernel/src/pic.rs) and the interrupt dispatcher                         *)
(* (kernel/src/interrupts.rs) with the foreground boot sequence that it    *)
(* preempts.                                                                *)
(*                                                                         *)
(* Characters are their ASCII codes (`ch as u8`), scancodes are bytes.     *)
(***************************************************************************)
EXTENDS Integers, Sequences, FiniteSets, TLC

VARIABLES
    shell,              \* Shell { input_buffer, buffer_pos, cursor_at_prompt_start, command_count }
    keyboard_state,     \* KeyboardState { shift_pressed, ctrl_pressed, alt_pressed, caps_lock }
    time_manager,       \* TimeManager { system_ticks, ms_per_tick, initialized }
    pics,               \* the two 8259 controllers: mask registers, ICWs still expected
    out,                \* console output of the operation in progress / last finished
    fg_color,           \* Writer.fg_color as left by the last set_text_color
    port_log,           \* port writes of the operation in progress / last finished
    fg_pc,              \* foreground context: index of the next statement of interrupts::init
    fg_locks,           \* spin locks whose guard the foreground context holds
    irq_locks,          \* spin locks whose guard the running interrupt handler holds
    interrupts_enabled, \* the CPU's IF flag as the foreground context set it
    hpc,                \* position of the running interrupt handler ("idle": none runs)
    scancode,           \* byte the running keyboard handler read from port 0x60
    decoded,            \* the last scancode_to_char call: its arguments and its result
    is_modifier,        \* bool handle_modifier_key returned last
    last_char,          \* the character of the last Shell::handle_char call
    keys_delivered,     \* keyboard interrupts delivered so far
    ticks_delivered,    \* timer interrupts delivered so far
    since_prompt,       \* history: characters appended / visual backspaces since the prompt
    eoi_issued,         \* history: end_of_interrupt calls so far, per vector
    typed,              \* history: ordinary characters handled since the prompt (unedited line)
    edited,             \* history: a backspace was handled since the prompt
    shift_keys_down,    \* history: the Shift keys pressed and not yet released
    modifier_calls,     \* history: the last two handle_modifier_key calls (scancode, state before)
    clock_calls,        \* history: the last TimeManager call, tick() calls since the last initialize
    writer,             \* Writer { cursor_x, cursor_y, info.width, info.height }
    writer_call,        \* history: the last Writer call, the glyphs it drew, its scroll_up calls
    pic_call,           \* history: the last Pics call and its argument, initialize() was called
    pit,                \* Pit { initialized }
    pit_device,         \* channel 0 of the 8253: mode, access, byte expected next, reload value
    buffer,             \* Writer.buffer: the bytes of the surface (byte i of the slice is buffer[i + 1])
    bytes_per_pixel,    \* Writer.info.bytes_per_pixel
    pixel_call,         \* history: the last pixel-level Writer call, the bytes it read and wrote
    uptime_read,        \* history: the last get_uptime_formatted call, the clock it read
    lock_ops            \* what the running keyboard handler has yet to do: lock and unlock operations, its return

vars == <<shell, keyboard_state, time_manager, pics, out, fg_color, port_log,
          fg_pc, fg_locks, irq_locks, interrupts_enabled, hpc, scancode,
          decoded, is_modifier, last_char, keys_delivered, ticks_delivered, since_prompt,
          eoi_issued, typed, edited, shift_keys_down, modifier_calls, clock_calls,
          writer, writer_call, pic_call, pit, pit_device,
          buffer, bytes_per_pixel, pixel_call, uptime_read, lock_ops>>

shellVars == <<shell, last_char, typed, edited>>
kbdVars   == <<keyboard_state, decoded, is_modifier, scancode>>
\* the histories and the Writer geometry: left alone by every step of the
\* decoder, the shell and the interrupt system
auxVars   == <<shift_keys_down, modifier_calls, clock_calls, writer, writer_call, pic_call,
               pit, pit_device, buffer, bytes_per_pixel, pixel_call, uptime_read, lock_ops>>
irqVars   == <<fg_pc, fg_locks, irq_locks, interrupts_enabled, hpc,
               keys_delivered, ticks_delivered, since_prompt, eoi_issued,
               port_log, pics>>

-----------------------------------------------------------------------------
(* Bounds of the model.                                                    *)

\* keyboard handler runs whose lock operations are followed in one behaviour
MaxLockRuns == 1

\* keyboard interrupts delivered in one behaviour of the interrupt system
MaxKeys == 4
\* timer interrupts delivered in one behaviour of the interrupt system
MaxTicks == 2
\* commands dispatched in one behaviour of the shell
MaxCommands == 2
\* characters offered to a full input buffer beyond the one that fills it
MaxOverflow == 2

\* tick() calls after one initialize (or before the first)
MaxClockTicks == 210

\* scancodes a key held down sends (its typematic repeat)
MaxHeldKeys == 257

\* calls made on the pixels of one Writer
MaxPixelCalls == 3

\* timer ticks counted on a clock whose uptime is being read
MaxUptimeTicks == 2

\* the longest uptime read, in milliseconds (about 23 days)
MaxUptimeMs == 2000000000

-----------------------------------------------------------------------------
(* Program constants.                                                      *)

INPUT_BUFFER_SIZE == 256
PIC1_COMMAND == 32
PIC1_DATA == 33
PIC2_COMMAND == 160
PIC2_DATA == 161
PIC1_OFFSET == 32
PIC2_OFFSET == 40
PIC_EOI == 32
PIT_CHANNEL_0 == 64
PIT_COMMAND == 67
PIT_BASE_FREQUENCY == 1193182
TARGET_FREQUENCY == 100
PIT_COMMAND_BYTE == 52
TIMER_INTERRUPT_ID == PIC1_OFFSET + 0
KEYBOARD_INTERRUPT_ID == PIC1_OFFSET + 1
DEFAULT_MS_PER_TICK == 10
FONT_WIDTH == 8
FONT_HEIGHT == 8
SCALE == 2

Min(a, b) == IF a < b THEN a ELSE b

\* F applied to the value of e (e is evaluated once, as a `let` binding is)
Bind(e, F(_)) == CHOOSE r \in {F(x) : x \in {e}} : TRUE

-----------------------------------------------------------------------------
(* Option<char>.                                                           *)

Some(c) == [some |-> TRUE, ch |-> c]
None == [some |-> FALSE, ch |-> 0]

-----------------------------------------------------------------------------
(* kernel/src/keyboard.rs                                                  *)

KeyboardState_new ==
    [shift_pressed |-> FALSE, ctrl_pressed |-> FALSE,
     alt_pressed |-> FALSE, caps_lock |-> FALSE]

\* handle_modifier_key with Caps Lock following the key: on while it is held
handle_modifier_key_state_level(state, sc) ==
    CASE sc \in {42, 54}   -> [state EXCEPT !.shift_pressed = TRUE]
      [] sc \in {170, 182} -> [state EXCEPT !.shift_pressed = FALSE]
      [] sc = 58           -> [state EXCEPT !.caps_lock = TRUE]
      [] sc = 186          -> [state EXCEPT !.caps_lock = FALSE]
      [] OTHER             -> state

\* handle_modifier_key: the KeyboardState after the scancode
handle_modifier_key_state(state, sc) ==
    CASE sc \in {42, 54}   -> [state EXCEPT !.shift_pressed = TRUE]      \* 0x2A | 0x36
      [] sc \in {170, 182} -> [state EXCEPT !.shift_pressed = FALSE]     \* 0xAA | 0xB6
      [] sc = 58           -> [state EXCEPT !.caps_lock = ~state.caps_lock] \* 0x3A
      [] OTHER             -> state

\* handle_modifier_key taking a Shift press for an ordinary key
handle_modifier_key_result_no_shift_press(sc) == sc \in {170, 182, 58}

\* handle_modifier_key: the bool it returns
handle_modifier_key_result(sc) == sc \in {42, 54, 170, 182, 58}

letter_case_or(lowercase, uppercase, shift_pressed, caps_lock) ==
    IF caps_lock \/ shift_pressed THEN uppercase ELSE lowercase

\* letter_case: caps_lock ^ shift_pressed selects the upper case
letter_case(lowercase, uppercase, shift_pressed, caps_lock) ==
    IF caps_lock # shift_pressed THEN uppercase ELSE lowercase

shifted_caps(plain, with_shift, shift_pressed, caps_lock) ==
    IF shift_pressed \/ caps_lock THEN with_shift ELSE plain

\* `if shift_pressed { a } else { b }` of the digit row and the punctuation keys
shifted(plain, with_shift, shift_pressed, caps_lock) ==
    IF shift_pressed THEN with_shift ELSE plain

scancode_to_char(sc, shift_pressed, caps_lock) ==
    LET L(lo, up) == Some(letter_case(lo, up, shift_pressed, caps_lock))
        S(plain, with_shift) == Some(shifted(plain, with_shift, shift_pressed, caps_lock))
    IN CASE sc = 2  -> S(49, 33)     \* 0x02  1 !
         [] sc = 3  -> S(50, 64)     \* 0x03  2 @
         [] sc = 4  -> S(51, 35)     \* 0x04  3 #
         [] sc = 5  -> S(52, 36)     \* 0x05  4 $
         [] sc = 6  -> S(53, 37)     \* 0x06  5 %
         [] sc = 7  -> S(54, 94)     \* 0x07  6 ^
         [] sc = 8  -> S(55, 38)     \* 0x08  7 &
         [] sc = 9  -> S(56, 42)     \* 0x09  8 *
         [] sc = 10 -> S(57, 40)     \* 0x0A  9 (
         [] sc = 11 -> S(48, 41)     \* 0x0B  0 )
         [] sc = 16 -> L(113, 81)    \* 0x10  q
         [] sc = 17 -> L(119, 87)    \* 0x11  w
         [] sc = 18 -> L(101, 69)    \* 0x12  e
         [] sc = 19 -> L(114, 82)    \* 0x13  r
         [] sc = 20 -> L(116, 84)    \* 0x14  t
         [] sc = 21 -> L(121, 89)    \* 0x15  y
         [] sc = 22 -> L(117, 85)    \* 0x16  u
         [] sc = 23 -> L(105, 73)    \* 0x17  i
         [] sc = 24 -> L(111, 79)    \* 0x18  o
         [] sc = 25 -> L(112, 80)    \* 0x19  p
         [] sc = 30 -> L(97, 65)     \* 0x1E  a
         [] sc = 31 -> L(115, 83)    \* 0x1F  s
         [] sc = 32 -> L(100, 68)    \* 0x20  d
         [] sc = 33 -> L(102, 70)    \* 0x21  f
         [] sc = 34 -> L(103, 71)    \* 0x22  g
         [] sc = 35 -> L(104, 72)    \* 0x23  h
         [] sc = 36 -> L(106, 74)    \* 0x24  j
         [] sc = 37 -> L(107, 75)    \* 0x25  k
         [] sc = 38 -> L(108, 76)    \* 0x26  l
         [] sc = 44 -> L(122, 90)    \* 0x2C  z
         [] sc = 45 -> L(120, 88)    \* 0x2D  x
         [] sc = 46 -> L(99, 67)     \* 0x2E  c
         [] sc = 47 -> L(118, 86)    \* 0x2F  v
         [] sc = 48 -> L(98, 66)     \* 0x30  b
         [] sc = 49 -> L(110, 78)    \* 0x31  n
         [] sc = 50 -> L(109, 77)    \* 0x32  m
         [] sc = 57 -> Some(32)      \* 0x39  space
         [] sc = 28 -> Some(10)      \* 0x1C  '\n'
         [] sc = 14 -> Some(8)       \* 0x0E  '\x08'
         [] sc = 15 -> Some(9)       \* 0x0F  '\t'
         [] sc = 12 -> S(45, 95)     \* 0x0C  - _
         [] sc = 13 -> S(61, 43)     \* 0x0D  = +
         [] sc = 26 -> S(91, 123)    \* 0x1A  [ {
         [] sc = 27 -> S(93, 125)    \* 0x1B  ] }
         [] sc = 39 -> S(59, 58)     \* 0x27  ; :
         [] sc = 40 -> S(39, 34)     \* 0x28  ' "
         [] sc = 41 -> S(96, 126)    \* 0x29  ` ~
         [] sc = 43 -> S(92, 124)    \* 0x2B  \ |
         [] sc = 51 -> S(44, 60)     \* 0x33  , <
         [] sc = 52 -> S(46, 62)     \* 0x34  . >
         [] sc = 53 -> S(47, 63)     \* 0x35  / ?
         [] OTHER   -> None

-----------------------------------------------------------------------------
(* kernel/src/time.rs                                                      *)

TimeManager_new ==
    [system_ticks |-> 0, ms_per_tick |-> DEFAULT_MS_PER_TICK, initialized |-> FALSE]

\* TimeManager::initialize keeping the ticks counted so far
TimeManager_initialize_keep_ticks(tm, ms_per_tick) ==
    [system_ticks |-> tm.system_ticks, ms_per_tick |-> ms_per_tick, initialized |-> TRUE]

\* TimeManager::initialize
TimeManager_initialize(tm, ms_per_tick) ==
    [system_ticks |-> 0, ms_per_tick |-> ms_per_tick, initialized |-> TRUE]

\* TimeManager::tick counting whether initialized or not
TimeManager_tick_unguarded(tm) ==
    [tm EXCEPT !.system_ticks = @ + 1]

\* TimeManager::tick
TimeManager_tick(tm) ==
    IF tm.initialized THEN [tm EXCEPT !.system_ticks = @ + 1] ELSE tm

get_uptime_ms(tm) ==
    IF tm.initialized THEN tm.system_ticks * tm.ms_per_tick ELSE 0

get_uptime_seconds(tm) == get_uptime_ms(tm) \div 1000

\* TimeManager::get_uptime_formatted with the hours not reduced to a day
get_uptime_formatted_hours_of_total(tm) ==
    LET total_seconds == get_uptime_seconds(tm)
    IN [days          |-> total_seconds \div 86400,
        hours         |-> total_seconds \div 3600,
        minutes       |-> (total_seconds % 3600) \div 60,
        seconds       |-> total_seconds % 60,
        milliseconds  |-> get_uptime_ms(tm) % 1000,
        total_ms      |-> get_uptime_ms(tm),
        total_seconds |-> get_uptime_seconds(tm)]

get_uptime_formatted(tm) ==
    LET total_seconds == get_uptime_seconds(tm)
    IN [days          |-> total_seconds \div 86400,
        hours         |-> (total_seconds % 86400) \div 3600,
        minutes       |-> (total_seconds % 3600) \div 60,
        seconds       |-> total_seconds % 60,
        milliseconds  |-> get_uptime_ms(tm) % 1000,
        total_ms      |-> get_uptime_ms(tm),
        total_seconds |-> get_uptime_seconds(tm)]

get_tick_count(tm) == tm.system_ticks

is_initialized(tm) == tm.initialized

\* FormattedUptime::short_format
short_format(u) == <<u.hours + u.days * 24, u.minutes, u.seconds>>

-----------------------------------------------------------------------------
(* Console output, as the sequence of things the print macros were given.  *)
(* Text is a format string's literal text, Chars a formatted &str or char  *)
(* (its bytes), Num a formatted integer with its format ("", "02", "03").  *)

Text(s)     == [k |-> "text",  s |-> s,  cs |-> <<>>, n |-> 0]
Chars(cs)   == [k |-> "chars", s |-> "", cs |-> cs,   n |-> 0]
Num(n, fmt) == [k |-> "num",   s |-> fmt, cs |-> <<>>, n |-> n]
Ratio(a, b) == [k |-> "ratio", s |-> ".2", cs |-> <<a, b>>, n |-> 0]
Nl          == [k |-> "nl",    s |-> "", cs |-> <<>>, n |-> 0]
Col(fg)     == [k |-> "color", s |-> fg, cs |-> <<>>, n |-> 0]
ClearScreen == [k |-> "clear", s |-> "", cs |-> <<>>, n |-> 0]
Backspace   == [k |-> "backspace", s |-> "", cs |-> <<>>, n |-> 0]

\* println!("literal")
Println(s) == <<Text(s), Nl>>

\* set_text_color(fg, Color::BLACK)
set_text_color(fg) == <<Col(fg)>>

RECURSIVE LastColor(_, _)
\* Writer.fg_color after the output `o`, from the colour `fg` before it
LastColor(o, fg) ==
    IF o = <<>> THEN fg
    ELSE IF o[Len(o)].k = "color" THEN o[Len(o)].s
    ELSE LastColor(SubSeq(o, 1, Len(o) - 1), fg)

-----------------------------------------------------------------------------
(* kernel/src/shell.rs: text helpers of core::str used by the shell.       *)

\* char::is_whitespace on the ASCII range
IsWhitespace(c) == c \in {9, 10, 11, 12, 13, 32}

\* the least element of a non-empty set of indices
Least(S) == CHOOSE i \in S : \A j \in S : i <= j

\* the greatest element of a non-empty set of indices
Greatest(S) == CHOOSE i \in S : \A j \in S : i >= j

NonBlankAt(s) == {i \in 1..Len(s) : ~IsWhitespace(s[i])}

\* str::trim_start
TrimStart(s) ==
    IF NonBlankAt(s) = {} THEN <<>> ELSE SubSeq(s, Least(NonBlankAt(s)), Len(s))

\* str::trim_end
TrimEnd(s) ==
    IF NonBlankAt(s) = {} THEN <<>> ELSE SubSeq(s, 1, Greatest(NonBlankAt(s)))

\* str::trim
trim(s) == TrimEnd(TrimStart(s))

\* length of the run of non-whitespace characters that starts `s`
TokenLen(s) ==
    LET blanks == {i \in 1..Len(s) : IsWhitespace(s[i])}
    IN IF blanks = {} THEN Len(s) ELSE Least(blanks) - 1

RECURSIVE split_whitespace(_)
\* str::split_whitespace, collected: the non-empty whitespace-delimited tokens
split_whitespace(s) ==
    LET t == TrimStart(s)
        n == TokenLen(t)
    IN IF t = <<>> THEN <<>>
       ELSE <<SubSeq(t, 1, n)>> \o split_whitespace(SubSeq(t, n + 1, Len(t)))

\* the verbs of execute_command, as bytes
VerbHelp    == <<104, 101, 108, 112>>
VerbClear   == <<99, 108, 101, 97, 114>>
VerbVersion == <<118, 101, 114, 115, 105, 111, 110>>
VerbEcho    == <<101, 99, 104, 111>>
VerbUptime  == <<117, 112, 116, 105, 109, 101>>
VerbSysinfo == <<115, 121, 115, 105, 110, 102, 111>>
VerbStats   == <<115, 116, 97, 116, 115>>

-----------------------------------------------------------------------------
(* kernel/src/shell.rs: the command handlers, as the output they print.    *)

cmd_help ==
    set_text_color("CYAN") \o Println("=== Rust OS Shell Commands ===")
    \o set_text_color("WHITE")
    \o Println("help              - Show this help message")
    \o Println("clear             - Clear the screen")
    \o Println("version           - Show OS version information")
    \o Println("echo <message>    - Display a message")
    \o Println("uptime            - Show system runtime")
    \o Println("sysinfo           - Show system information")
    \o Println("stats             - Show shell statistics")
    \o <<Nl>>
    \o set_text_color("YELLOW")
    \o Println("Examples:")
    \o Println("  echo Hello from Rust OS!")
    \o Println("  uptime")
    \o Println("  sysinfo")
    \o Println("  stats")
    \o <<Nl>>
    \o Println("Tips:")
    \o Println("- Use Shift/Caps Lock for uppercase")
    \o Println("- Use Backspace to edit your input")
    \o Println("- Use Tab for indentation")
    \o Println("- All commands are case-sensitive")
    \o set_text_color("WHITE")

\* WRITER.lock() ... clear_screen(), the guard dropped, then the banner
cmd_clear ==
    <<ClearScreen>>
    \o set_text_color("CYAN")
    \o Println("=== Rust OS v0.3.0 - Time System ===")
    \o set_text_color("WHITE")
    \o Println("Screen cleared. Type 'help' for commands.")

\* the check marks of the source (U+2713) are written (v)
cmd_version ==
    set_text_color("CYAN") \o Println("=== Rust OS Version Information ===")
    \o set_text_color("WHITE")
    \o Println("OS Name:      Rust OS")
    \o Println("Version:      0.3.0")
    \o Println("Codename:     \"Temporal\"")
    \o Println("Architecture: x86_64")
    \o Println("Build:        Debug")
    \o Println("Compiler:     rustc (nightly)")
    \o <<Nl>>
    \o set_text_color("GREEN")
    \o Println("Core Features:")
    \o set_text_color("WHITE")
    \o Println("(v) Graphical framebuffer output")
    \o Println("(v) 8259 PIC interrupt controller")
    \o Println("(v) PS/2 keyboard driver with full layout")
    \o Println("(v) Interactive shell with command parsing")
    \o Println("(v) PIT 8253 timer driver (100 Hz precision)")
    \o Println("(v) Real-time system clock and uptime tracking")
    \o Println("(v) Memory-safe kernel (no_std Rust)")

RECURSIVE EchoArgs(_, _)
\* the loop of cmd_echo: a single space before every argument but the first
EchoArgs(args, first) ==
    IF args = <<>> THEN <<>>
    ELSE (IF first THEN <<>> ELSE <<Text(" ")>>)
         \o <<Chars(Head(args))>> \o EchoArgs(Tail(args), FALSE)

\* cmd_echo printing the separating space before the first argument too
cmd_echo_space_before_each(args) ==
    set_text_color("WHITE") \o EchoArgs(args, FALSE) \o <<Nl>>

cmd_echo(args) ==
    set_text_color("WHITE") \o EchoArgs(args, TRUE) \o <<Nl>>

cmd_uptime(tm) ==
    IF ~is_initialized(tm)
    THEN set_text_color("RED") \o Println("Time system not initialized!")
         \o set_text_color("WHITE")
    ELSE LET u == get_uptime_formatted(tm)
             total_ms == u.total_ms
             tick_count == get_tick_count(tm)
             clock == <<Num(u.hours, "02"), Text(":"), Num(u.minutes, "02"), Text(":"),
                        Num(u.seconds, "02"), Text("."), Num(u.milliseconds, "03"), Nl>>
         IN set_text_color("CYAN") \o Println("=== System Uptime ===")
            \o set_text_color("WHITE")
            \o (IF u.days > 0
                THEN <<Text("Uptime: "), Num(u.days, ""), Text(" days, ")>> \o clock
                ELSE <<Text("Uptime: ")>> \o clock)
            \o <<Nl>>
            \o set_text_color("YELLOW") \o Println("Timer Details:")
            \o set_text_color("WHITE")
            \o <<Text("  Total milliseconds: "), Num(total_ms, ""), Nl>>
            \o <<Text("  Timer ticks:        "), Num(tick_count, ""), Nl>>
            \o Println("  Timer frequency:    100 Hz")
            \o Println("  Tick interval:      10 ms")
            \o (IF tick_count > 0
                THEN <<Text("  Average per tick:   "), Ratio(total_ms, tick_count),
                       Text(" ms"), Nl>>
                ELSE <<>>)

cmd_sysinfo(tm) ==
    set_text_color("CYAN") \o Println("=== System Information ===")
    \o set_text_color("WHITE")
    \o Println("Kernel:           Rust OS v0.3.0")
    \o Println("Architecture:     x86_64")
    \o Println("Boot Protocol:    UEFI/BIOS (bootloader 0.11)")
    \o (IF is_initialized(tm)
        THEN LET hms == short_format(get_uptime_formatted(tm))
             IN <<Text("Uptime:           "), Num(hms[1], "02"), Text(":"),
                  Num(hms[2], "02"), Text(":"), Num(hms[3], "02"), Nl>>
        ELSE <<>>)
    \o <<Nl>>
    \o set_text_color("YELLOW") \o Println("Hardware:")
    \o set_text_color("WHITE")
    \o Println("  CPU:            x86_64 compatible")
    \o Println("  Timer:          Intel 8253 PIT @ 100 Hz")
    \o Println("  Interrupt:      Intel 8259 PIC")
    \o Println("  Keyboard:       PS/2 compatible")
    \o Println("  Display:        Framebuffer graphics")
    \o <<Nl>>
    \o set_text_color("YELLOW") \o Println("Memory:")
    \o set_text_color("WHITE")
    \o Println("  Kernel size:    ~60 KB")
    \o Println("  Runtime usage:  < 1 MB")
    \o Println("  Memory model:   Static allocation")
    \o <<Nl>>
    \o set_text_color("GREEN") \o Println("(v) All systems operational")
    \o set_text_color("WHITE")

\* the panic of an integer division whose divisor is 0
DivideByZero == [k |-> "panic", s |-> "attempt to divide by zero", cs |-> <<>>, n |-> 0]

\* `a / b` of two u64 formatted with {}
Quotient(a, b) == IF b = 0 THEN DivideByZero ELSE Num(a \div b, "")

\* cmd_stats dividing whenever the clock is initialized
cmd_stats_unguarded(sh, tm) ==
    set_text_color("CYAN") \o Println("=== Shell Statistics ===")
    \o set_text_color("WHITE")
    \o <<Text("Commands executed:    "), Num(sh.command_count, ""), Nl>>
    \o <<Text("Input buffer size:    "), Num(INPUT_BUFFER_SIZE, ""), Text(" bytes"), Nl>>
    \o <<Text("Current buffer used:  "), Num(sh.buffer_pos, ""), Text(" bytes"), Nl>>
    \o Println("Available commands:   7")
    \o (IF is_initialized(tm)
        THEN <<Text("Avg time per command: "),
               Quotient(get_uptime_ms(tm), sh.command_count), Text(" ms"), Nl>>
        ELSE <<>>)
    \o <<Nl>>
    \o set_text_color("YELLOW") \o Println("Session Information:")
    \o set_text_color("WHITE")
    \o (IF is_initialized(tm)
        THEN <<Text("  Commands per minute: "),
               Quotient(sh.command_count * 60, get_uptime_formatted(tm).total_seconds),
               Nl>>
        ELSE <<>>)
    \o Println("  Shell status:        Active")
    \o Println("  Error count:         0")
    \o set_text_color("GREEN") \o <<Nl>>
    \o Println("(v) Shell running smoothly!")
    \o set_text_color("WHITE")

cmd_stats(sh, tm) ==
    set_text_color("CYAN") \o Println("=== Shell Statistics ===")
    \o set_text_color("WHITE")
    \o <<Text("Commands executed:    "), Num(sh.command_count, ""), Nl>>
    \o <<Text("Input buffer size:    "), Num(INPUT_BUFFER_SIZE, ""), Text(" bytes"), Nl>>
    \o <<Text("Current buffer used:  "), Num(sh.buffer_pos, ""), Text(" bytes"), Nl>>
    \o Println("Available commands:   7")
    \o (IF is_initialized(tm) /\ get_uptime_ms(tm) > 0 /\ sh.command_count > 0
        THEN <<Text("Avg time per command: "),
               Quotient(get_uptime_ms(tm), sh.command_count), Text(" ms"), Nl>>
        ELSE <<>>)
    \o <<Nl>>
    \o set_text_color("YELLOW") \o Println("Session Information:")
    \o set_text_color("WHITE")
    \o (IF is_initialized(tm) /\ get_uptime_formatted(tm).total_seconds > 0
        THEN <<Text("  Commands per minute: "),
               Quotient(sh.command_count * 60, get_uptime_formatted(tm).total_seconds),
               Nl>>
        ELSE <<>>)
    \o Println("  Shell status:        Active")
    \o Println("  Error count:         0")
    \o set_text_color("GREEN") \o <<Nl>>
    \o Println("(v) Shell running smoothly!")
    \o set_text_color("WHITE")

-----------------------------------------------------------------------------
(* kernel/src/shell.rs: the Shell.  An operation yields the Shell after    *)
(* it (sh) and what it printed (o).                                        *)

Shell_new ==
    [input_buffer |-> [i \in 0..(INPUT_BUFFER_SIZE - 1) |-> 0],
     buffer_pos |-> 0,
     cursor_at_prompt_start |-> FALSE,
     command_count |-> 0]

BufferFullDiagnostic ==
    set_text_color("RED") \o <<Text(" [BUFFER FULL] ")>> \o set_text_color("WHITE")

\* add_char dropping the character of a full buffer without the diagnostic
add_char_silent_drop(sh, ch) ==
    IF sh.buffer_pos < INPUT_BUFFER_SIZE - 1
    THEN [sh |-> [sh EXCEPT !.input_buffer[sh.buffer_pos] = ch, !.buffer_pos = @ + 1],
          o  |-> <<>>]
    ELSE [sh |-> sh, o |-> <<>>]

\* add_char filling the last slot too
add_char_no_reserve(sh, ch) ==
    IF sh.buffer_pos < INPUT_BUFFER_SIZE
    THEN [sh |-> [sh EXCEPT !.input_buffer[sh.buffer_pos] = ch, !.buffer_pos = @ + 1],
          o  |-> <<>>]
    ELSE [sh |-> sh, o |-> BufferFullDiagnostic]

\* Shell::add_char
add_char(sh, ch) ==
    IF sh.buffer_pos < INPUT_BUFFER_SIZE - 1
    THEN [sh |-> [sh EXCEPT !.input_buffer[sh.buffer_pos] = ch, !.buffer_pos = @ + 1],
          o  |-> <<>>]
    ELSE [sh |-> sh, o |-> BufferFullDiagnostic]

\* Shell::handle_backspace stepping back without zeroing the byte it removes
handle_backspace_keeps_byte(sh) ==
    IF sh.buffer_pos > 0
    THEN [sh |-> [sh EXCEPT !.buffer_pos = @ - 1], o |-> <<>>]
    ELSE [sh |-> sh, o |-> <<>>]

\* Shell::handle_backspace
handle_backspace(sh) ==
    IF sh.buffer_pos > 0
    THEN [sh |-> [sh EXCEPT !.buffer_pos = @ - 1,
                            !.input_buffer[sh.buffer_pos - 1] = 0],
          o  |-> <<>>]
    ELSE [sh |-> sh, o |-> <<>>]

clear_buffer(sh) ==
    [sh EXCEPT !.buffer_pos = 0,
               !.input_buffer = [i \in 0..(INPUT_BUFFER_SIZE - 1) |-> 0]]

show_prompt(sh) ==
    [sh |-> [sh EXCEPT !.cursor_at_prompt_start = TRUE],
     o  |-> set_text_color("GREEN") \o <<Text("rust-os")>>
            \o set_text_color("WHITE") \o <<Text("> ")>>]

\* can_backspace answering yes whatever the buffer holds
can_backspace_always(sh) == TRUE

\* Shell::can_backspace
can_backspace(sh) == sh.buffer_pos > 0

UnknownCommand(cmd) ==
    set_text_color("RED")
    \o <<Text("Unknown command: '"), Chars(cmd), Text("'"), Nl>>
    \o set_text_color("YELLOW")
    \o Println("Type 'help' for available commands.")
    \o set_text_color("WHITE")

\* str::to_ascii_lowercase
to_ascii_lowercase(s) == [i \in 1..Len(s) |-> IF s[i] \in 65..90 THEN s[i] + 32 ELSE s[i]]

\* execute_command matching the verb whatever its case
execute_command_any_case(sh, tm, command) ==
    LET Dispatch(parts) ==
            IF parts = <<>> THEN <<>>
            ELSE LET cmd == to_ascii_lowercase(Head(parts))
                 IN CASE cmd = VerbHelp    -> cmd_help
                      [] cmd = VerbClear   -> cmd_clear
                      [] cmd = VerbVersion -> cmd_version
                      [] cmd = VerbEcho    -> cmd_echo(Tail(parts))
                      [] cmd = VerbUptime  -> cmd_uptime(tm)
                      [] cmd = VerbSysinfo -> cmd_sysinfo(tm)
                      [] cmd = VerbStats   -> cmd_stats(sh, tm)
                      [] OTHER             -> UnknownCommand(Head(parts))
    IN Bind(split_whitespace(command), Dispatch)

\* execute_command: what the command prints (no handler changes the Shell)
execute_command(sh, tm, command) ==
    LET Dispatch(parts) ==
            IF parts = <<>> THEN <<>>
            ELSE LET cmd == Head(parts)
                 IN CASE cmd = VerbHelp    -> cmd_help
                      [] cmd = VerbClear   -> cmd_clear
                      [] cmd = VerbVersion -> cmd_version
                      [] cmd = VerbEcho    -> cmd_echo(Tail(parts))
                      [] cmd = VerbUptime  -> cmd_uptime(tm)
                      [] cmd = VerbSysinfo -> cmd_sysinfo(tm)
                      [] cmd = VerbStats   -> cmd_stats(sh, tm)
                      [] OTHER             -> UnknownCommand(cmd)
    IN Bind(split_whitespace(command), Dispatch)

\* the snapshot temp_buffer[..buffer_len] of process_command
Snapshot(sh) == [i \in 1..sh.buffer_pos |-> sh.input_buffer[i - 1]]

process_command_count_all(sh, tm) ==
    LET Run(command) ==
            LET ran == sh.buffer_pos > 0 /\ command # <<>>
                sh1 == [sh EXCEPT !.command_count = @ + 1]
                pr == show_prompt(clear_buffer(sh1))
            IN [sh |-> pr.sh,
                o  |-> <<Nl>> \o (IF ran THEN execute_command(sh1, tm, command) ELSE <<>>)
                       \o pr.o]
    IN Bind(trim(Snapshot(sh)), Run)

process_command_no_clear(sh, tm) ==
    LET Run(command) ==
            LET ran == sh.buffer_pos > 0 /\ command # <<>>
                sh1 == IF ran THEN [sh EXCEPT !.command_count = @ + 1] ELSE sh
                pr == show_prompt(IF ran THEN clear_buffer(sh1) ELSE sh1)
            IN [sh |-> pr.sh,
                o  |-> <<Nl>> \o (IF ran THEN execute_command(sh1, tm, command) ELSE <<>>)
                       \o pr.o]
    IN Bind(trim(Snapshot(sh)), Run)

process_command(sh, tm) ==
    LET buffer_len == sh.buffer_pos
        Run(command) ==
            LET ran == buffer_len > 0 /\ command # <<>>
                sh1 == IF ran THEN [sh EXCEPT !.command_count = @ + 1] ELSE sh
                pr == show_prompt(clear_buffer(sh1))
            IN [sh |-> pr.sh,
                o  |-> <<Nl>> \o (IF ran THEN execute_command(sh1, tm, command) ELSE <<>>)
                       \o pr.o]
    IN Bind(trim(Snapshot(sh)), Run)

\* `ch.is_ascii() && !ch.is_control()`
IsOrdinary(ch) == ch >= 32 /\ ch <= 126

\* Shell::handle_char
handle_char(sh, tm, ch) ==
    CASE ch = 10        -> process_command(sh, tm)
      [] ch = 8         -> handle_backspace(sh)
      [] IsOrdinary(ch) -> add_char(sh, ch)
      [] OTHER          -> [sh |-> sh, o |-> <<>>]

-----------------------------------------------------------------------------
(* kernel/src/pic.rs: the driver, as the port writes it makes, and the two  *)
(* 8259 controllers as those writes change them (mask1/mask2: the interrupt *)
(* mask registers; icw1/icw2: initialization words still expected on the    *)
(* data port after ICW1).                                                   *)

W(port, value) == [port |-> port, value |-> value]

\* io_wait(): Port::new(0x80).write(0u8)
io_wait == <<W(128, 0)>>

\* Pics::initialize
Pics_initialize ==
    <<W(PIC1_DATA, 255), W(PIC2_DATA, 255)>>
    \o <<W(PIC1_COMMAND, 17)>> \o io_wait          \* ICW1_INIT = 0x11
    \o <<W(PIC2_COMMAND, 17)>> \o io_wait
    \o <<W(PIC1_DATA, PIC1_OFFSET)>> \o io_wait
    \o <<W(PIC2_DATA, PIC2_OFFSET)>> \o io_wait
    \o <<W(PIC1_DATA, 4)>> \o io_wait
    \o <<W(PIC2_DATA, 2)>> \o io_wait
    \o <<W(PIC1_DATA, 1)>> \o io_wait              \* ICW4_8086 = 0x01
    \o <<W(PIC2_DATA, 1)>> \o io_wait
    \o <<W(PIC1_DATA, 255), W(PIC2_DATA, 255)>>

\* bit `i` of the byte `m`
Bit(m, i) == (m \div (2 ^ i)) % 2

\* m & !(1 << i)
ClearBit(m, i) == IF Bit(m, i) = 1 THEN m - 2 ^ i ELSE m

\* Pics::enable_interrupt writing a mask with the one bit clear, the mask of
\* the controller not read
Pics_enable_interrupt_mask_not_read(p, irq) ==
    IF irq < 8
    THEN <<W(PIC1_DATA, ClearBit(255, irq))>>
    ELSE <<W(PIC2_DATA, ClearBit(255, irq - 8))>>

\* Pics::enable_interrupt(irq), the mask read from the data port being p's
Pics_enable_interrupt(p, irq) ==
    IF irq < 8
    THEN <<W(PIC1_DATA, ClearBit(p.mask1, irq))>>
    ELSE <<W(PIC2_DATA, ClearBit(p.mask2, irq - 8))>>

\* Pics::end_of_interrupt acknowledging on the primary controller first
Pics_end_of_interrupt_primary_first(interrupt_id) ==
    <<W(PIC1_COMMAND, PIC_EOI)>>
    \o (IF interrupt_id >= PIC2_OFFSET THEN <<W(PIC2_COMMAND, PIC_EOI)>> ELSE <<>>)

\* Pics::end_of_interrupt(interrupt_id)
Pics_end_of_interrupt(interrupt_id) ==
    (IF interrupt_id >= PIC2_OFFSET THEN <<W(PIC2_COMMAND, PIC_EOI)>> ELSE <<>>)
    \o <<W(PIC1_COMMAND, PIC_EOI)>>

\* one port write, as the controllers take it
PortWrite(p, w) ==
    CASE w.port = PIC1_COMMAND /\ Bit(w.value, 4) = 1 -> [p EXCEPT !.icw1 = 3, !.mask1 = 0]
      [] w.port = PIC2_COMMAND /\ Bit(w.value, 4) = 1 -> [p EXCEPT !.icw2 = 3, !.mask2 = 0]
      [] w.port = PIC1_DATA /\ p.icw1 > 0 -> [p EXCEPT !.icw1 = @ - 1]
      [] w.port = PIC2_DATA /\ p.icw2 > 0 -> [p EXCEPT !.icw2 = @ - 1]
      [] w.port = PIC1_DATA -> [p EXCEPT !.mask1 = w.value]
      [] w.port = PIC2_DATA -> [p EXCEPT !.mask2 = w.value]
      [] OTHER -> p

RECURSIVE PortWrites(_, _)
PortWrites(p, ws) ==
    IF ws = <<>> THEN p ELSE PortWrites(PortWrite(p, Head(ws)), Tail(ws))

\* the line `irq` of the primary controller may interrupt the CPU
Unmasked(p, irq) == p.icw1 = 0 /\ Bit(p.mask1, irq) = 0

-----------------------------------------------------------------------------
(* kernel/src/pit.rs: the driver, as the port writes it makes, and channel  *)
(* 0 of the 8253 as those writes change it (reload: the 16-bit count, 0     *)
(* standing for 65536; next: which byte of the count a data write is).     *)

\* (PIT_BASE_FREQUENCY / TARGET_FREQUENCY) as u16
DIVISOR == (PIT_BASE_FREQUENCY \div TARGET_FREQUENCY) % 65536

Pit_new == [initialized |-> FALSE]

\* Pit::initialize writing the high byte of the divisor before the low byte
Pit_initialize_high_first ==
    <<W(PIT_COMMAND, PIT_COMMAND_BYTE)>> \o io_wait
    \o <<W(PIT_CHANNEL_0, (DIVISOR \div 256) % 256)>> \o io_wait
    \o <<W(PIT_CHANNEL_0, DIVISOR % 256)>> \o io_wait

\* Pit::initialize: its port writes
Pit_initialize ==
    <<W(PIT_COMMAND, PIT_COMMAND_BYTE)>> \o io_wait
    \o <<W(PIT_CHANNEL_0, DIVISOR % 256)>> \o io_wait            \* DIVISOR & 0xFF
    \o <<W(PIT_CHANNEL_0, (DIVISOR \div 256) % 256)>> \o io_wait \* (DIVISOR >> 8) & 0xFF

\* Pit::get_frequency
get_frequency == TARGET_FREQUENCY

\* Pit::get_interval_ms
get_interval_ms == 1000 \div TARGET_FREQUENCY

\* one port write, as channel 0 of the timer takes it: a control word for
\* channel 0 (bits 7-6 = 0) that is no latch command (bits 5-4 # 0) sets the
\* access and the mode and expects the low byte next; a data write is one byte
\* of the count
PitPortWrite(d, w) ==
    LET channel == w.value \div 64
        access == (w.value \div 16) % 4
        mode == (w.value \div 2) % 8
    IN CASE w.port = PIT_COMMAND /\ channel = 0 /\ access # 0 ->
                [d EXCEPT !.mode = mode, !.access = access, !.next = "low"]
         [] w.port = PIT_CHANNEL_0 /\ d.access = 1 -> [d EXCEPT !.reload = w.value]
         [] w.port = PIT_CHANNEL_0 /\ d.access = 2 -> [d EXCEPT !.reload = 256 * w.value]
         [] w.port = PIT_CHANNEL_0 /\ d.access = 3 /\ d.next = "low" ->
                [d EXCEPT !.low = w.value, !.next = "high"]
         [] w.port = PIT_CHANNEL_0 /\ d.access = 3 /\ d.next = "high" ->
                [d EXCEPT !.reload = d.low + 256 * w.value, !.next = "low"]
         [] OTHER -> d

RECURSIVE PitPortWrites(_, _)
PitPortWrites(d, ws) ==
    IF ws = <<>> THEN d ELSE PitPortWrites(PitPortWrite(d, Head(ws)), Tail(ws))

-----------------------------------------------------------------------------
(* kernel/src/writer.rs: the cursor of the Writer.  A call is followed      *)
(* through a record holding the Writer `w` and what the call has done so    *)
(* far: the glyph positions given to draw_char (`draws`), the scroll_up     *)
(* calls (`scrolls`), the glyphs drawn since cursor_x was last 0 (`row`).   *)

\* Writer::new: char_width = Font8x8::WIDTH * scale, char_height likewise
char_width == FONT_WIDTH * SCALE
char_height == FONT_HEIGHT * SCALE

\* Writer::new(buffer, info)
Writer_new(info) ==
    [cursor_x |-> 0, cursor_y |-> 0, width |-> info.width, height |-> info.height]

\* a call about to start on the Writer `w`
WriterCall(w, row) == [w |-> w, draws |-> <<>>, scrolls |-> 0, row |-> row]

\* Writer::scroll_up without the cursor moved back onto the surface
scroll_up_cursor_kept(r) ==
    [r EXCEPT !.scrolls = @ + 1]

\* Writer::scroll_up: the cursor goes to the last row that fits
scroll_up(r) ==
    [r EXCEPT !.w.cursor_y = r.w.height - char_height, !.scrolls = @ + 1]

\* Writer::newline
newline(r) ==
    LET moved == [r EXCEPT !.w.cursor_x = 0, !.w.cursor_y = @ + char_height, !.row = 0]
    IN IF moved.w.cursor_y + char_height > moved.w.height
       THEN scroll_up(moved)
       ELSE moved

\* Writer::write_char wrapping only once the cursor is past the row's end
write_char_late_wrap(r, ch) ==
    CASE ch = 10 -> newline(r)
      [] ch = 13 -> [r EXCEPT !.w.cursor_x = 0, !.row = 0]
      [] OTHER ->
           LET at == IF r.w.cursor_x > r.w.width THEN newline(r) ELSE r
           IN [at EXCEPT !.draws = Append(@, [x |-> at.w.cursor_x, y |-> at.w.cursor_y]),
                         !.w.cursor_x = @ + char_width,
                         !.row = @ + 1]

\* Writer::write_char
write_char(r, ch) ==
    CASE ch = 10 -> newline(r)
      [] ch = 13 -> [r EXCEPT !.w.cursor_x = 0, !.row = 0]
      [] OTHER ->
           LET at == IF r.w.cursor_x + char_width > r.w.width THEN newline(r) ELSE r
           IN [at EXCEPT !.draws = Append(@, [x |-> at.w.cursor_x, y |-> at.w.cursor_y]),
                         !.w.cursor_x = @ + char_width,
                         !.row = @ + 1]

\* Writer::write_string: for ch in s.chars() { self.write_char(ch) }
RECURSIVE write_string(_, _)
write_string(r, s) ==
    IF s = <<>> THEN r ELSE write_string(write_char(r, Head(s)), Tail(s))

-----------------------------------------------------------------------------
(* kernel/src/writer.rs: the pixels of the Writer.  A call is followed       *)
(* through a record holding the Writer `w`, its `buffer` (byte i of the slice *)
(* is buffer[i + 1]), info.bytes_per_pixel (`bpp`), the two colours, and the  *)
(* slice indices the call has read (`read`) and written (`written`) so far,   *)
(* in the order it did,                                                       *)
(* and whether it has called scroll_up (`scrolled`).                          *)

\* Color::BLACK, Color::WHITE
BLACK == [r |-> 0, g |-> 0, b |-> 0]
WHITE == [r |-> 255, g |-> 255, b |-> 255]

\* a call about to start on the Writer `w` over `buf`
PixelCall(w, buf, bpp) ==
    [w |-> w, buffer |-> buf, bpp |-> bpp, fg_color |-> WHITE, bg_color |-> BLACK,
     read |-> <<>>, written |-> <<>>, scrolled |-> FALSE]

\* Font8x8::get_char(ch): the eight rows of the glyph, bit `col` of a row its
\* pixel in column `col`
Font8x8_get_char(ch) ==
    IF ch = 65 THEN <<12, 30, 51, 51, 63, 51, 51, 0>> ELSE <<0, 0, 0, 0, 0, 0, 0, 0>>

\* Writer::write_pixel_at_offset: blue, green, red, alpha, as many as the
\* pixel has bytes
write_pixel_at_offset(p, offset, color) ==
    IF offset + p.bpp <= Len(p.buffer)
    THEN LET blue == [p.buffer EXCEPT ![offset + 1] = color.b]
             green == IF p.bpp > 1 THEN [blue EXCEPT ![offset + 2] = color.g] ELSE blue
             red == IF p.bpp > 2 THEN [green EXCEPT ![offset + 3] = color.r] ELSE green
             alpha == IF p.bpp > 3 THEN [red EXCEPT ![offset + 4] = 255] ELSE red
         IN [p EXCEPT !.buffer = alpha,
                      !.written = @ \o [k \in 1..Min(p.bpp, 4) |-> offset + k - 1]]
    ELSE p

\* Writer::write_pixel
write_pixel(p, x, y, color) ==
    LET pixel_offset == (y * p.w.width + x) * p.bpp
    IN IF pixel_offset + p.bpp <= Len(p.buffer)
       THEN write_pixel_at_offset(p, pixel_offset, color)
       ELSE p

\* n passes of `for i in (..).step_by(bytes_per_pixel)` from i on, in order
\* (the first half of them, then the rest): the pixel at i, if the slice holds
\* all of it, becomes the background colour
RECURSIVE FillFrom(_, _, _)
FillFrom(p, i, n) ==
    CASE n <= 0 -> p
      [] n = 1 -> IF i + p.bpp <= Len(p.buffer)
                  THEN write_pixel_at_offset(p, i, p.bg_color)
                  ELSE p
      [] OTHER -> CHOOSE rest \in { FillFrom(half, i + (n \div 2) * p.bpp, n - (n \div 2)) :
                                       half \in {FillFrom(p, i, n \div 2)} } : TRUE

\* for i in (start..end).step_by(bytes_per_pixel)
FillPixels(p, start, end) ==
    FillFrom(p, start, IF end > start THEN (end - start + p.bpp - 1) \div p.bpp ELSE 0)

\* Writer::clear_screen
clear_screen(p) ==
    LET expected_size == (p.w.width * p.w.height) * p.bpp
        filled == IF Len(p.buffer) >= expected_size
                  THEN FillPixels(p, 0, expected_size)
                  ELSE p
    IN [filled EXCEPT !.w.cursor_x = 0, !.w.cursor_y = 0]

\* Writer::scroll_up, n passes of its inner loop from x on, in order (the first
\* half of them, then the rest): byte dst_start + x takes what byte
\* src_start + x holds, where the slice has both
RECURSIVE CopyBytes(_, _, _, _, _)
CopyBytes(p, src_start, dst_start, x, n) ==
    CASE n <= 0 -> p
      [] n = 1 -> IF src_start + x < Len(p.buffer) /\ dst_start + x < Len(p.buffer)
                  THEN [p EXCEPT !.buffer[dst_start + x + 1] = p.buffer[src_start + x + 1],
                                 !.read = Append(@, src_start + x),
                                 !.written = Append(@, dst_start + x)]
                  ELSE p
      [] OTHER -> CHOOSE rest \in { CopyBytes(half, src_start, dst_start,
                                               x + (n \div 2), n - (n \div 2)) :
                                       half \in {CopyBytes(p, src_start, dst_start,
                                                           x, n \div 2)} } : TRUE

\* Writer::scroll_up, n passes of its outer loop from y on, in order: row y
\* takes what the row `rows_down` below it holds
RECURSIVE CopyRows(_, _, _, _, _)
CopyRows(p, y, n, rows_down, line_bytes) ==
    CASE n <= 0 -> p
      [] n = 1 -> CopyBytes(p, (y + rows_down) * line_bytes, y * line_bytes, 0, line_bytes)
      [] OTHER -> CHOOSE rest \in { CopyRows(half, y + (n \div 2), n - (n \div 2),
                                              rows_down, line_bytes) :
                                       half \in {CopyRows(p, y, n \div 2,
                                                          rows_down, line_bytes)} } : TRUE

\* Writer::scroll_up moving the rows up by the font's height, not the glyph's
scroll_up_pixels_by_font_height(p) ==
    LET line_bytes == p.w.width * p.bpp
        copied == CopyRows(p, 0, p.w.height - char_height, FONT_HEIGHT, line_bytes)
        clear_start == (p.w.height - char_height) * line_bytes
        cleared == FillPixels(copied, clear_start, Len(p.buffer))
    IN [cleared EXCEPT !.w.cursor_y = p.w.height - char_height, !.scrolled = TRUE]

\* Writer::scroll_up on the pixels
scroll_up_pixels(p) ==
    LET line_bytes == p.w.width * p.bpp
        copied == CopyRows(p, 0, p.w.height - char_height, char_height, line_bytes)
        clear_start == (p.w.height - char_height) * line_bytes
        cleared == FillPixels(copied, clear_start, Len(p.buffer))
    IN [cleared EXCEPT !.w.cursor_y = p.w.height - char_height, !.scrolled = TRUE]

\* Writer::draw_char, the k-th pass of its innermost loop: the passes run over
\* row, col, dy, dx in that order
DrawPass(p, char_bitmap, start_x, start_y, k) ==
    LET row == k \div (8 * SCALE * SCALE)
        col == (k \div (SCALE * SCALE)) % 8
        dy == (k \div SCALE) % SCALE
        dx == k % SCALE
        pixel_on == (char_bitmap[row + 1] \div (2 ^ col)) % 2
        x == start_x + col * SCALE + dx
        y == start_y + row * SCALE + dy
        color == IF pixel_on = 1 THEN p.fg_color ELSE p.bg_color
    IN IF x < p.w.width /\ y < p.w.height
       THEN write_pixel(p, x, y, color)
       ELSE p

\* n passes from the k-th on, in order (the first half of them, then the rest)
RECURSIVE DrawFrom(_, _, _, _, _, _)
DrawFrom(p, char_bitmap, start_x, start_y, k, n) ==
    CASE n <= 0 -> p
      [] n = 1 -> DrawPass(p, char_bitmap, start_x, start_y, k)
      [] OTHER -> CHOOSE rest \in { DrawFrom(half, char_bitmap, start_x, start_y,
                                              k + (n \div 2), n - (n \div 2)) :
                                       half \in {DrawFrom(p, char_bitmap, start_x, start_y,
                                                          k, n \div 2)} } : TRUE

\* Writer::draw_char
draw_char(p, ch, start_x, start_y) ==
    DrawFrom(p, Font8x8_get_char(ch), start_x, start_y, 0, 8 * 8 * SCALE * SCALE)

\* Writer::write_char on the pixels: the cursor moves as write_char moves it,
\* the scroll_up it calls through newline comes first, then its draw_char
write_char_pixels(p, ch) ==
    LET r == write_char(WriterCall(p.w, p.w.cursor_x \div char_width), ch)
        scrolled == IF r.scrolls > 0 THEN scroll_up_pixels(p) ELSE p
        drawn == IF r.draws # <<>>
                 THEN draw_char(scrolled, ch, r.draws[1].x, r.draws[1].y)
                 ELSE scrolled
    IN [drawn EXCEPT !.w = r.w]

-----------------------------------------------------------------------------
(* Initial values: every object as its constructor leaves it.               *)

\* the interrupt mask registers as the firmware may have left them
BootMasks == {0, 184, 255}

TimeInit == time_manager = TimeManager_new
ShellInit == shell = Shell_new /\ last_char = 0 /\ typed = 0 /\ edited = FALSE
KbdInit ==
    /\ keyboard_state = KeyboardState_new
    /\ decoded = [sc |-> 0, shift_pressed |-> FALSE, caps_lock |-> FALSE, result |-> None]
    /\ is_modifier = FALSE
    /\ scancode = 0
ConsoleInit == out = <<>> /\ fg_color = "WHITE"
IrqInit ==
    /\ pics \in [mask1 : BootMasks, mask2 : BootMasks, icw1 : {0}, icw2 : {0}]
    /\ port_log = <<>>
    /\ fg_pc = 1
    /\ fg_locks = {}
    /\ irq_locks = {}
    /\ interrupts_enabled = FALSE
    /\ hpc = "idle"
    /\ keys_delivered = 0
    /\ ticks_delivered = 0
    /\ since_prompt = [appended |-> 0, erased |-> 0]
    /\ eoi_issued = [timer |-> 0, keyboard |-> 0]
\* the histories empty, the Writer new on a surface of three glyph rows
\* no keyboard handler runs: it has no lock operation to make
LockQuiet == lock_ops = <<>>
ModifierHistoryInit == shift_keys_down = {} /\ modifier_calls = <<>>
\* no get_uptime_formatted call yet
NoUptimeRead ==
    [reads |-> 0, ticks |-> 0, of |-> TimeManager_new,
     info |-> get_uptime_formatted(TimeManager_new),
     short |-> short_format(get_uptime_formatted(TimeManager_new))]
ClockHistoryInit ==
    /\ clock_calls = [last |-> "new", ticks |-> 0, inits |-> 0]
    /\ uptime_read = NoUptimeRead
WriterHistoryInit ==
    writer_call = [op |-> "new", s |-> <<>>, draws |-> <<>>, scrolls |-> 0, row |-> 0,
                   before |-> writer]
WriterQuiet == writer = Writer_new([width |-> 48, height |-> 48]) /\ WriterHistoryInit
PicHistoryInit == pic_call = [op |-> "new", arg |-> 0, initialized |-> FALSE]
\* the Pit new, channel 0 as the firmware programs it (mode 3, 65536 counts)
PitQuiet ==
    /\ pit = Pit_new
    /\ pit_device = [mode |-> 3, access |-> 3, next |-> "low", low |-> 0, reload |-> 0]
\* no pixel-level call yet
PixelHistoryInit ==
    pixel_call = [op |-> "new", ch |-> 0, scrolled |-> FALSE, calls |-> 0,
                  before |-> [buffer |-> buffer, w |-> writer], read |-> <<>>, written |-> <<>>]
\* the surface left out: no byte behind the Writer
PixelQuiet == buffer = <<>> /\ bytes_per_pixel = 4 /\ PixelHistoryInit
AuxInit ==
    /\ LockQuiet /\ ModifierHistoryInit /\ ClockHistoryInit /\ WriterQuiet /\ PicHistoryInit /\ PitQuiet
    /\ PixelQuiet

IrqQuiet ==
    /\ pics = [mask1 |-> 255, mask2 |-> 255, icw1 |-> 0, icw2 |-> 0]
    /\ port_log = <<>>
    /\ fg_pc = 1
    /\ fg_locks = {}
    /\ irq_locks = {}
    /\ interrupts_enabled = FALSE
    /\ hpc = "idle"
    /\ keys_delivered = 0
    /\ ticks_delivered = 0
    /\ since_prompt = [appended |-> 0, erased |-> 0]
    /\ eoi_issued = [timer |-> 0, keyboard |-> 0]

-----------------------------------------------------------------------------
(* The keyboard decoder on its own: handle_modifier_key and                *)
(* scancode_to_char applied to every byte.                                 *)

\* the bytes handle_modifier_key is fed: the five modifier scancodes, the release
\* of Caps Lock (0xBA), a key and its release (0x1E, 0x9E)
ModifierProbes == {42, 54, 170, 182, 58, 186, 30, 158}

\* the bytes scancode_to_char is given: every key press, and two bytes >= 0x80
DecodeProbes == (0..127) \cup {158, 255}

\* a scancode_to_char call from the handler: the arguments it passes, its result
Decode(sc, state) ==
    [sc |-> sc, shift_pressed |-> state.shift_pressed, caps_lock |-> state.caps_lock,
     result |-> scancode_to_char(sc, state.shift_pressed, state.caps_lock)]

\* handle_modifier_key(&mut state, sc)
HandleModifierKey(sc) ==
    /\ keyboard_state' = handle_modifier_key_state(keyboard_state, sc)
    /\ is_modifier' = handle_modifier_key_result(sc)
    /\ scancode' = sc
    /\ UNCHANGED <<decoded, shellVars, time_manager, out, fg_color, irqVars>>
    /\ UNCHANGED auxVars

\* scancode_to_char(sc, state.shift_pressed, state.caps_lock)
ScancodeToChar(sc) ==
    /\ decoded' = Decode(sc, keyboard_state)
    /\ UNCHANGED <<keyboard_state, is_modifier, scancode, shellVars, time_manager, out, fg_color, irqVars>>
    /\ UNCHANGED auxVars

InitKbd == KbdInit /\ ShellInit /\ TimeInit /\ ConsoleInit /\ IrqQuiet /\ AuxInit

NextKbd ==
    \/ \E sc \in ModifierProbes : HandleModifierKey(sc)
    \/ \E sc \in DecodeProbes : ScancodeToChar(sc)

SpecKbd == InitKbd /\ [][NextKbd]_vars

-----------------------------------------------------------------------------
(* The modifier keys on their own: handle_modifier_key fed the scancodes of *)
(* a keyboard whose keys go down, repeat while held, and come up.           *)

\* everything but the decoder's state and its histories
modifierFrame ==
    <<decoded, shellVars, time_manager, out, fg_color, irqVars,
      clock_calls, writer, writer_call, pic_call, pit, pit_device,
      buffer, bytes_per_pixel, pixel_call, uptime_read, lock_ops>>

\* the Shift keys down once the keyboard has sent `sc`
ShiftKeysAfter(down, sc) ==
    CASE sc = 42  -> down \cup {"left"}
      [] sc = 54  -> down \cup {"right"}
      [] sc = 170 -> down \ {"left"}
      [] sc = 182 -> down \ {"right"}
      [] OTHER    -> down

\* the keyboard can send `sc`: a Shift key is released only if it is down
CanSend(down, sc) ==
    /\ sc = 170 => "left" \in down
    /\ sc = 182 => "right" \in down

\* the last two calls, the newest last
LastTwo(calls, call) ==
    Append(IF Len(calls) = 2 THEN Tail(calls) ELSE calls, call)

\* handle_modifier_key(&mut state, sc), sc being what the keyboard sent
FeedModifierKey(sc) ==
    /\ CanSend(shift_keys_down, sc)
    /\ keyboard_state' = handle_modifier_key_state(keyboard_state, sc)
    /\ is_modifier' = handle_modifier_key_result(sc)
    /\ scancode' = sc
    /\ shift_keys_down' = ShiftKeysAfter(shift_keys_down, sc)
    /\ modifier_calls' = LastTwo(modifier_calls, [sc |-> sc, before |-> keyboard_state])
    /\ UNCHANGED modifierFrame

InitModifier == InitKbd

NextModifier == \E sc \in ModifierProbes : FeedModifierKey(sc)

SpecModifier == InitModifier /\ [][NextModifier]_vars

-----------------------------------------------------------------------------
(* The clock on its own: TimeManager::new, then initialize and tick called  *)
(* in any order.                                                            *)

\* everything but the clock and its history
clockFrame ==
    <<shellVars, kbdVars, out, fg_color, irqVars,
      shift_keys_down, modifier_calls, writer, writer_call, pic_call, pit, pit_device,
      buffer, bytes_per_pixel, pixel_call, uptime_read, lock_ops>>

\* the tick lengths initialize is given: 100 Hz, the PIT's 18.2 Hz, 1 kHz
ClockRates == {10, 55, 1}

\* TIME_MANAGER.lock().initialize(ms_per_tick)
ClockInitialize(ms_per_tick) ==
    /\ time_manager' = TimeManager_initialize(time_manager, ms_per_tick)
    /\ clock_calls' = [last |-> "initialize", ticks |-> 0,
                       inits |-> Min(clock_calls.inits + 1, 2)]
    /\ UNCHANGED clockFrame

\* TIME_MANAGER.lock().tick()
ClockTick ==
    /\ clock_calls.ticks < MaxClockTicks
    /\ time_manager' = TimeManager_tick(time_manager)
    /\ clock_calls' = [clock_calls EXCEPT !.last = "tick", !.ticks = @ + 1]
    /\ UNCHANGED clockFrame

InitClock == InitKbd

NextClock ==
    \/ \E ms_per_tick \in ClockRates : ClockInitialize(ms_per_tick)
    \/ ClockTick

SpecClock == InitClock /\ [][NextClock]_vars

-----------------------------------------------------------------------------
(* The uptime read off the clock: get_uptime_formatted and short_format      *)
(* called on clocks that have run for anything from no time to some weeks,   *)
(* with timer ticks in between.                                              *)

\* everything but the clock and the history of its reads
uptimeFrame ==
    <<shellVars, kbdVars, out, fg_color, irqVars,
      shift_keys_down, modifier_calls, clock_calls, writer, writer_call, pic_call,
      pit, pit_device, buffer, bytes_per_pixel, pixel_call, lock_ops>>

\* system_ticks: around the second, the minute, the hour and the day of a
\* 100 Hz clock, 1 d 2 h 3 min 4 s 50 ms of it, and longer
UptimeTicks ==
    {0, 1, 99, 100, 5999, 6000, 359999, 360000, 8639999, 8640000, 9378405,
     93784005, 200000000}

\* ms_per_tick: 1 kHz, 100 Hz, the PIT's 18.2 Hz
UptimeRates == {1, 10, 55}

\* the clocks read: never initialized, or initialized and run for a while
UptimeClocks ==
    {TimeManager_new} \cup
    { [system_ticks |-> c[1], ms_per_tick |-> c[2], initialized |-> TRUE] :
        c \in { tr \in UptimeTicks \X UptimeRates :
                  tr[1] + MaxUptimeTicks <= MaxUptimeMs \div tr[2] } }

\* TIME_MANAGER.lock().tick()
UptimeTick ==
    /\ uptime_read.ticks < MaxUptimeTicks
    /\ time_manager' = TimeManager_tick(time_manager)
    /\ uptime_read' = [uptime_read EXCEPT !.ticks = @ + 1]
    /\ UNCHANGED uptimeFrame

\* TIME_MANAGER.lock().get_uptime_formatted(), then format_detailed().short_format()
UptimeRead ==
    /\ \E info \in {get_uptime_formatted(time_manager)} :
          uptime_read' = [reads |-> Min(uptime_read.reads + 1, 2),
                          ticks |-> uptime_read.ticks,
                          of |-> time_manager, info |-> info, short |-> short_format(info)]
    /\ UNCHANGED <<time_manager, uptimeFrame>>

InitUptime ==
    /\ ShellInit /\ KbdInit /\ ConsoleInit /\ IrqQuiet
    /\ LockQuiet /\ ModifierHistoryInit /\ ClockHistoryInit /\ WriterQuiet /\ PicHistoryInit /\ PitQuiet
    /\ PixelQuiet
    /\ time_manager \in UptimeClocks

NextUptime ==
    \/ UptimeTick
    \/ UptimeRead

SpecUptime == InitUptime /\ [][NextUptime]_vars

-----------------------------------------------------------------------------
(* The Writer on its own: write_char and write_string called in any order   *)
(* on surfaces of several sizes, each at least one glyph row high.          *)

\* everything but the Writer and its history
writerFrame ==
    <<shellVars, kbdVars, time_manager, out, fg_color, irqVars,
      shift_keys_down, modifier_calls, clock_calls, pic_call, pit, pit_device,
      buffer, bytes_per_pixel, pixel_call, uptime_read, lock_ops>>

\* info.width, info.height: narrower than a glyph, a whole number of glyphs,
\* a glyph and a half, ...
SurfaceWidths == {8, 16, 40, 48}
SurfaceHeights == {16, 24, 40, 48}

\* the characters written: newline, carriage return, 'A', ' '
WriterChars == {10, 13, 65, 32}

\* the strings written: "AA\nA", "AAAA", "\n\n", "A\rA"
WriterStrings == { <<65, 65, 10, 65>>, <<65, 65, 65, 65>>, <<10, 10>>, <<65, 13, 65>> }

\* the history of a finished call
FinishedCall(op, s, r) ==
    [op |-> op, s |-> s, draws |-> r.draws, scrolls |-> r.scrolls, row |-> r.row,
     before |-> writer]

\* writer.write_char(ch)
WriteChar(ch) ==
    /\ \E r \in {write_char(WriterCall(writer, writer_call.row), ch)} :
          /\ writer' = r.w
          /\ writer_call' = FinishedCall("write_char", <<ch>>, r)
    /\ UNCHANGED writerFrame

\* writer.write_string(s)
WriteString(s) ==
    /\ \E r \in {write_string(WriterCall(writer, writer_call.row), s)} :
          /\ writer' = r.w
          /\ writer_call' = FinishedCall("write_string", s, r)
    /\ UNCHANGED writerFrame

InitWriter ==
    /\ ShellInit /\ KbdInit /\ TimeInit /\ ConsoleInit /\ IrqQuiet
    /\ LockQuiet /\ ModifierHistoryInit /\ ClockHistoryInit /\ PicHistoryInit /\ PitQuiet
    /\ writer \in { Writer_new([width |-> w, height |-> h]) :
                      w \in SurfaceWidths, h \in SurfaceHeights }
    /\ WriterHistoryInit
    /\ PixelQuiet

NextWriter ==
    \/ \E ch \in WriterChars : WriteChar(ch)
    \/ \E s \in WriterStrings : WriteString(s)

SpecWriter == InitWriter /\ [][NextWriter]_vars

-----------------------------------------------------------------------------
(* The interrupt controller driver on its own: initialize, enable_interrupt *)
(* and end_of_interrupt called in any order.                                *)

\* everything but the controllers, the port writes and the driver's history
picFrame ==
    <<shellVars, kbdVars, time_manager, out, fg_color,
      fg_pc, fg_locks, irq_locks, interrupts_enabled, hpc, keys_delivered,
      ticks_delivered, since_prompt, eoi_issued,
      shift_keys_down, modifier_calls, clock_calls, writer, writer_call, pit, pit_device,
      buffer, bytes_per_pixel, pixel_call, uptime_read, lock_ops>>

\* the lines enable_interrupt is asked for: timer, keyboard, cascade, the last
\* of the primary, the first and the last of the secondary
IrqProbes == {0, 1, 2, 7, 8, 15}

\* the vectors end_of_interrupt is given: both controllers' ranges
VectorProbes == PIC1_OFFSET .. (PIC2_OFFSET + 7)

\* a driver call: its port writes reach the controllers
PicCall(op, arg, ws) ==
    /\ port_log' = ws
    /\ pics' = PortWrites(pics, ws)
    /\ pic_call' = [op |-> op, arg |-> arg,
                    initialized |-> pic_call.initialized \/ op = "initialize"]
    /\ UNCHANGED picFrame

\* PICS.lock().initialize()
PicInitialize == PicCall("initialize", 0, Pics_initialize)

\* PICS.lock().enable_interrupt(irq)
PicEnableInterrupt(irq) == PicCall("enable_interrupt", irq, Pics_enable_interrupt(pics, irq))

\* PICS.lock().end_of_interrupt(interrupt_id)
PicEndOfInterrupt(interrupt_id) ==
    PicCall("end_of_interrupt", interrupt_id, Pics_end_of_interrupt(interrupt_id))

InitPic ==
    /\ ShellInit /\ KbdInit /\ TimeInit /\ ConsoleInit /\ IrqInit /\ AuxInit

NextPic ==
    \/ PicInitialize
    \/ \E irq \in IrqProbes : PicEnableInterrupt(irq)
    \/ \E interrupt_id \in VectorProbes : PicEndOfInterrupt(interrupt_id)

SpecPic == InitPic /\ [][NextPic]_vars

-----------------------------------------------------------------------------
(* The timer driver on its own: Pit::initialize called on channel 0 in     *)
(* whatever state the firmware or an earlier program left it.               *)

\* everything but the Pit, the timer and the port writes
pitFrame ==
    <<shellVars, kbdVars, time_manager, out, fg_color, pics,
      fg_pc, fg_locks, irq_locks, interrupts_enabled, hpc, keys_delivered,
      ticks_delivered, since_prompt, eoi_issued,
      shift_keys_down, modifier_calls, clock_calls, writer, writer_call, pic_call,
      buffer, bytes_per_pixel, pixel_call, uptime_read, lock_ops>>

\* the counts channel 0 may hold: 65536 (written 0), the driver's, 1 kHz, 65535
PitReloads == {0, 11931, 1193, 65535}

\* channel 0 as Pit::initialize may find it
PitDeviceStates ==
    [mode : 0 .. 5, access : 1 .. 3, next : {"low", "high"}, low : {0, 46}, reload : PitReloads]

\* PIT.lock().initialize()
PitInitialize ==
    /\ port_log' = Pit_initialize
    /\ pit_device' = PitPortWrites(pit_device, Pit_initialize)
    /\ pit' = [pit EXCEPT !.initialized = TRUE]
    /\ UNCHANGED pitFrame

InitPit ==
    /\ ShellInit /\ KbdInit /\ TimeInit /\ ConsoleInit /\ IrqQuiet
    /\ LockQuiet /\ ModifierHistoryInit /\ ClockHistoryInit /\ WriterQuiet /\ PicHistoryInit /\ PixelQuiet
    /\ pit = Pit_new
    /\ pit_device \in PitDeviceStates

NextPit == PitInitialize

SpecPit == InitPit /\ [][NextPit]_vars

-----------------------------------------------------------------------------
(* The pixels of the Writer on their own: clear_screen and write_char called *)
(* in any order on small surfaces, each at least one glyph row high, over    *)
(* slices that hold the surface exactly, fall short of it, or run past it.   *)

\* everything but the Writer, its slice and the history of its pixel calls
pixelFrame ==
    <<shellVars, kbdVars, time_manager, out, fg_color, irqVars,
      shift_keys_down, modifier_calls, clock_calls, writer_call, pic_call, pit, pit_device,
      uptime_read, lock_ops>>

\* info.width, info.height, info.bytes_per_pixel and buffer.len()
PixelSurfaces ==
    { [width |-> 1,  height |-> 33, bytes_per_pixel |-> 4, len |-> 132],
      [width |-> 1,  height |-> 33, bytes_per_pixel |-> 4, len |-> 131],
      [width |-> 2,  height |-> 18, bytes_per_pixel |-> 3, len |-> 108],
      [width |-> 2,  height |-> 18, bytes_per_pixel |-> 3, len |-> 105],
      [width |-> 2,  height |-> 18, bytes_per_pixel |-> 3, len |-> 111],
      [width |-> 1,  height |-> 16, bytes_per_pixel |-> 2, len |-> 32],
      [width |-> 3,  height |-> 17, bytes_per_pixel |-> 2, len |-> 102],
      [width |-> 16, height |-> 18, bytes_per_pixel |-> 1, len |-> 288] }

\* what the slice holds before the Writer's first call: no byte of it a byte
\* of either colour, no two rows alike
SurfaceBytes(len) == [i \in 1..len |-> 1 + ((i - 1) % 253)]

\* the characters written: newline, carriage return, 'A', ' '
PixelChars == {10, 13, 65, 32}

\* the history of a finished pixel call
FinishedPixelCall(op, ch, p) ==
    [op |-> op, ch |-> ch, scrolled |-> p.scrolled, calls |-> pixel_call.calls + 1,
     before |-> [buffer |-> buffer, w |-> writer], read |-> p.read, written |-> p.written]

\* writer.clear_screen()
PixelClearScreen ==
    /\ pixel_call.calls < MaxPixelCalls
    /\ \E p \in {clear_screen(PixelCall(writer, buffer, bytes_per_pixel))} :
          /\ writer' = p.w
          /\ buffer' = p.buffer
          /\ pixel_call' = FinishedPixelCall("clear_screen", 0, p)
    /\ UNCHANGED <<bytes_per_pixel, pixelFrame>>

\* writer.write_char(ch)
PixelWriteChar(ch) ==
    /\ pixel_call.calls < MaxPixelCalls
    /\ \E p \in {write_char_pixels(PixelCall(writer, buffer, bytes_per_pixel), ch)} :
          /\ writer' = p.w
          /\ buffer' = p.buffer
          /\ pixel_call' = FinishedPixelCall("write_char", ch, p)
    /\ UNCHANGED <<bytes_per_pixel, pixelFrame>>

InitPixels ==
    /\ ShellInit /\ KbdInit /\ TimeInit /\ ConsoleInit /\ IrqQuiet
    /\ LockQuiet /\ ModifierHistoryInit /\ ClockHistoryInit /\ PicHistoryInit /\ PitQuiet
    /\ \E info \in PixelSurfaces :
          /\ writer = Writer_new(info)
          /\ buffer = SurfaceBytes(info.len)
          /\ bytes_per_pixel = info.bytes_per_pixel
    /\ WriterHistoryInit
    /\ PixelHistoryInit

NextPixels ==
    \/ PixelClearScreen
    \/ \E ch \in PixelChars : PixelWriteChar(ch)

SpecPixels == InitPixels /\ [][NextPixels]_vars

-----------------------------------------------------------------------------
(* The shell on its own: any sequence of Shell::handle_char calls whose    *)
(* characters spell one of the lines below, or run on to fill the buffer.  *)

\* the lines typed at the prompt (each may be cut short, edited, dispatched)
TypedLines ==
    { <<32, 32>>,                                         \* "  "
      <<104, 101, 108, 112>>,                             \* "help"
      <<72, 69, 76, 80>>,                                 \* "HELP"
      <<32, 104, 101, 108, 112, 32>>,                     \* " help "
      <<101, 99, 104, 111, 32, 97, 32, 32, 98, 32>>,      \* "echo a  b "
      <<32, 101, 99, 104, 111, 32, 32, 97, 32, 98, 32, 99, 32, 32>>, \* " echo  a b c  "
      <<99, 108, 101, 97, 114>>,                          \* "clear"
      <<118, 101, 114, 115, 105, 111, 110>>,              \* "version"
      <<117, 112, 116, 105, 109, 101>>,                   \* "uptime"
      <<115, 121, 115, 105, 110, 102, 111>>,              \* "sysinfo"
      <<115, 116, 97, 116, 115>> }                        \* "stats"

\* the character `ch` may follow what the buffer holds: it continues one of the
\* lines, or it is the key held down ('x' again and again, whatever the length)
CanType(sh, ch) ==
    LET n == sh.buffer_pos
    IN \/ ch = 120 /\ \A i \in 0..(n - 1) : sh.input_buffer[i] = 120
       \/ \E line \in TypedLines :
             /\ n < Len(line)
             /\ line[n + 1] = ch
             /\ \A i \in 1..n : sh.input_buffer[i - 1] = line[i]

\* the characters handle_char is called with: backspace, tab, newline,
\* a non-ASCII character, and the characters of the lines
ShellChars ==
    {8, 9, 10, 233, 120} \cup UNION { {l[i] : i \in 1..Len(l)} : l \in TypedLines }

\* the clock as the shell's commands may find it
ShellTimeStates ==
    {TimeManager_new}
    \cup { [TimeManager_initialize(TimeManager_new, DEFAULT_MS_PER_TICK)
              EXCEPT !.system_ticks = t] : t \in {0, 1, 150} }

\* SHELL.lock().handle_char(ch)
ShellHandleChar(ch) ==
    /\ shell.command_count < MaxCommands
    /\ IsOrdinary(ch) =>
          /\ CanType(shell, ch)
          /\ typed < INPUT_BUFFER_SIZE + MaxOverflow
    /\ \E r \in {handle_char(shell, time_manager, ch)} :
          /\ shell' = r.sh
          /\ out' = r.o
          /\ fg_color' = LastColor(r.o, fg_color)
    /\ last_char' = ch
    /\ typed' = CASE ch \in {8, 10}  -> 0
                  [] IsOrdinary(ch)  -> IF edited THEN 0 ELSE typed + 1
                  [] OTHER           -> typed
    /\ edited' = CASE ch = 8  -> TRUE
                   [] ch = 10 -> FALSE
                   [] OTHER   -> edited
    /\ UNCHANGED <<kbdVars, time_manager, irqVars>>
    /\ UNCHANGED auxVars

InitShell ==
    /\ ShellInit /\ KbdInit /\ ConsoleInit /\ IrqQuiet /\ AuxInit
    /\ time_manager \in ShellTimeStates

NextShell == \E ch \in ShellChars : ShellHandleChar(ch)

SpecShell == InitShell /\ [][NextShell]_vars

-----------------------------------------------------------------------------
(* The interrupt system: interrupts::init running in the foreground, and   *)
(* the timer and keyboard handlers preempting it on the same core.  A       *)
(* handler runs with interrupts disabled until it returns, so while one     *)
(* runs neither the foreground nor another handler takes a step.  A spin    *)
(* lock taken by a handler while the foreground holds it is never granted:  *)
(* the handler has no enabled step.                                         *)

\* the statements of interrupts::init, in order
InitProgram ==
    << "print", "load_idt", "print", "pic_init", "print", "enable_keyboard",
       "print", "enable_timer", "print", "enable_interrupts", "print" >>

\* what each println! of interrupts::init writes
InitMessage ==
    [i \in 1..11 |->
       CASE i = 1  -> "Setting up IDT..."
         [] i = 3  -> "Initializing PIC..."
         [] i = 5  -> "Enabling keyboard interrupt..."
         [] i = 7  -> "Enabling timer interrupt..."
         [] i = 9  -> "Enabling interrupts..."
         [] i = 11 -> "Interrupt system ready!"
         [] OTHER  -> ""]

\* the foreground statement about to run
FgAt(stmt) == fg_pc <= Len(InitProgram) /\ InitProgram[fg_pc] = stmt

\* the foreground context resuming although a handler has not returned
FgCanRun_preempting == TRUE

\* the foreground context executes only while no handler runs
FgCanRun == hpc = "idle"

\* the console lock (WRITER) is free for the interrupt handler to take
ConsoleFree == "WRITER" \notin fg_locks

\* the clock as the boot sequence leaves it before interrupts::init
BootTimeStates ==
    {TimeManager_new, TimeManager_initialize(TimeManager_new, DEFAULT_MS_PER_TICK)}

\* the scancodes the keyboard sends: 'a' and its release, left shift, Caps
\* Lock, backspace, Enter, Tab, Esc (unmapped)
KeyProbes == {30, 158, 42, 58, 14, 28, 15, 1}

\* println!: the console lock is taken ...
FgPrintAcquire ==
    /\ FgCanRun
    /\ FgAt("print")
    /\ "WRITER" \notin fg_locks
    /\ fg_locks' = fg_locks \cup {"WRITER"}
    /\ UNCHANGED <<shellVars, kbdVars, time_manager, out, fg_color, fg_pc, irq_locks,
                   interrupts_enabled, hpc, keys_delivered, ticks_delivered,
                   since_prompt, eoi_issued, port_log, pics>>
    /\ UNCHANGED auxVars

\* ... the line is written and the lock released
FgPrintRelease ==
    /\ FgCanRun
    /\ FgAt("print")
    /\ "WRITER" \in fg_locks
    /\ out' = Println(InitMessage[fg_pc])
    /\ fg_locks' = fg_locks \ {"WRITER"}
    /\ fg_pc' = fg_pc + 1
    /\ UNCHANGED <<shellVars, kbdVars, time_manager, fg_color, irq_locks,
                   interrupts_enabled, hpc, keys_delivered, ticks_delivered,
                   since_prompt, eoi_issued, port_log, pics>>
    /\ UNCHANGED auxVars

\* IDT.load()
FgLoadIdt ==
    /\ FgCanRun
    /\ FgAt("load_idt")
    /\ fg_pc' = fg_pc + 1
    /\ UNCHANGED <<shellVars, kbdVars, time_manager, out, fg_color, fg_locks, irq_locks,
                   interrupts_enabled, hpc, keys_delivered, ticks_delivered,
                   since_prompt, eoi_issued, port_log, pics>>
    /\ UNCHANGED auxVars

\* a driver call of the foreground: its port writes reach the controllers
FgPortWrites(stmt, ws) ==
    /\ FgCanRun
    /\ FgAt(stmt)
    /\ port_log' = ws
    /\ pics' = PortWrites(pics, ws)
    /\ fg_pc' = fg_pc + 1
    /\ UNCHANGED <<shellVars, kbdVars, time_manager, out, fg_color, fg_locks, irq_locks,
                   interrupts_enabled, hpc, keys_delivered, ticks_delivered,
                   since_prompt, eoi_issued>>
    /\ UNCHANGED auxVars

\* pic::init()
FgPicInit == FgPortWrites("pic_init", Pics_initialize)

\* pic::enable_keyboard()
FgEnableKeyboard == FgPortWrites("enable_keyboard", Pics_enable_interrupt(pics, 1))

\* pic::enable_timer()
FgEnableTimer == FgPortWrites("enable_timer", Pics_enable_interrupt(pics, 0))

\* x86_64::instructions::interrupts::enable()
FgEnableInterrupts ==
    /\ FgCanRun
    /\ FgAt("enable_interrupts")
    /\ interrupts_enabled' = TRUE
    /\ fg_pc' = fg_pc + 1
    /\ UNCHANGED <<shellVars, kbdVars, time_manager, out, fg_color, fg_locks, irq_locks,
                   hpc, keys_delivered, ticks_delivered, since_prompt, eoi_issued,
                   port_log, pics>>
    /\ UNCHANGED auxVars

\* the output of show_prompt
PromptOutput == <<Col("GREEN"), Text("rust-os"), Col("WHITE"), Text("> ")>>

\* the output `o` ends with the prompt
EndsWithPrompt(o) ==
    Len(o) >= Len(PromptOutput) /\ SubSeq(o, Len(o) - Len(PromptOutput) + 1, Len(o)) = PromptOutput

\* what the foreground leaves alone is also what a handler step leaves alone
fgVars == <<fg_pc, fg_locks, interrupts_enabled>>

\* is_ascii_alphabetic
IsAsciiAlphabetic(ch) == (ch >= 65 /\ ch <= 90) \/ (ch >= 97 /\ ch <= 122)

\* where the keyboard handler goes once handle_modifier_key has returned
\* `modifier` for the scancode `sc`, the decoder's state being `state`
AfterModifier(sc, modifier, state) ==
    LET ch == scancode_to_char(sc, state.shift_pressed, state.caps_lock)
    IN CASE modifier /\ sc = 58 -> "kbd_caps_status"
         [] modifier            -> "kbd_modifier_eoi"
         [] sc >= 128           -> "kbd_eoi"
         [] ch = None           -> "kbd_unmapped"
         [] ch.ch = 8           -> "kbd_backspace"
         [] ch.ch = 10          -> "kbd_enter"
         [] ch.ch = 9           -> "kbd_tab"
         [] OTHER               -> "kbd_char"

\* the positions of the keyboard handler and of the timer handler
KeyboardPcs ==
    { "kbd_entry", "kbd_caps_status", "kbd_modifier_eoi", "kbd_backspace",
      "kbd_backspace_visual", "kbd_enter", "kbd_tab", "kbd_char", "kbd_char_echo",
      "kbd_unmapped", "kbd_eoi" }
TimerPcs == { "timer_tick", "timer_eoi" }

\* the keyboard controller raises IRQ1 with the byte `sc` at port 0x60
KeyboardInterrupt(sc) ==
    /\ interrupts_enabled
    /\ hpc = "idle"
    /\ Unmasked(pics, 1)
    /\ keys_delivered < MaxKeys
    /\ hpc' = "kbd_entry"
    /\ scancode' = sc
    /\ keys_delivered' = keys_delivered + 1
    /\ port_log' = <<>>
    /\ out' = <<>>
    /\ UNCHANGED <<shellVars, keyboard_state, decoded, is_modifier, time_manager, fg_color,
                   fgVars, irq_locks, ticks_delivered, since_prompt, eoi_issued, pics>>
    /\ UNCHANGED auxVars

\* KEYBOARD_STATE.lock(); handle_modifier_key(&mut keyboard_state, scancode);
\* scancode < 0x80; scancode_to_char(...); match ch
KbdEntry ==
    /\ hpc = "kbd_entry"
    /\ irq_locks' = irq_locks \cup {"KEYBOARD_STATE"}
    /\ keyboard_state' = handle_modifier_key_state(keyboard_state, scancode)
    /\ is_modifier' = handle_modifier_key_result(scancode)
    /\ decoded' = IF ~is_modifier' /\ scancode < 128
                  THEN Decode(scancode, keyboard_state')
                  ELSE decoded
    /\ hpc' = AfterModifier(scancode, is_modifier', keyboard_state')
    /\ UNCHANGED <<shellVars, scancode, time_manager, out, fg_color, fgVars,
                   keys_delivered, ticks_delivered, since_prompt, eoi_issued, port_log, pics>>
    /\ UNCHANGED auxVars

\* a handler step that only prints `o` and goes on to `next`
KbdPrint(at, o, next) ==
    /\ hpc = at
    /\ ConsoleFree
    /\ out' = out \o o
    /\ fg_color' = LastColor(o, fg_color)
    /\ hpc' = next
    /\ UNCHANGED <<shellVars, kbdVars, time_manager, fgVars, irq_locks, keys_delivered,
                   ticks_delivered, eoi_issued, port_log, pics>>
    /\ UNCHANGED auxVars

\* Caps Lock: the status is shown
KbdCapsStatus ==
    /\ KbdPrint("kbd_caps_status",
                set_text_color("YELLOW")
                \o <<Text(IF keyboard_state.caps_lock THEN " [CAPS ON] " ELSE " [CAPS OFF] ")>>
                \o set_text_color("WHITE"),
                "kbd_modifier_eoi")
    /\ UNCHANGED since_prompt

\* pic::end_of_interrupt(interrupt_id), and the handler returns
EndOfInterrupt(at, interrupt_id) ==
    /\ hpc = at
    /\ port_log' = port_log \o Pics_end_of_interrupt(interrupt_id)
    /\ pics' = PortWrites(pics, Pics_end_of_interrupt(interrupt_id))
    /\ eoi_issued' = IF interrupt_id = KEYBOARD_INTERRUPT_ID
                     THEN [eoi_issued EXCEPT !.keyboard = @ + 1]
                     ELSE [eoi_issued EXCEPT !.timer = @ + 1]
    /\ irq_locks' = {}
    /\ hpc' = "idle"
    /\ UNCHANGED <<shellVars, kbdVars, time_manager, out, fg_color, fgVars,
                   keys_delivered, ticks_delivered, since_prompt>>
    /\ UNCHANGED auxVars

\* the modifier branch returning without the acknowledgment
KbdModifierEoi_skipped ==
    /\ hpc = "kbd_modifier_eoi"
    /\ irq_locks' = {}
    /\ hpc' = "idle"
    /\ UNCHANGED <<shellVars, kbdVars, time_manager, out, fg_color, fgVars, keys_delivered,
                   ticks_delivered, since_prompt, eoi_issued, port_log, pics>>
    /\ UNCHANGED auxVars

\* the modifier branch: pic::end_of_interrupt(KEYBOARD_INTERRUPT_ID); return
KbdModifierEoi == EndOfInterrupt("kbd_modifier_eoi", KEYBOARD_INTERRUPT_ID)

\* '\x08': if SHELL.lock().can_backspace() { handle_shell_char('\x08'); ...
KbdBackspace ==
    /\ hpc = "kbd_backspace"
    /\ IF can_backspace(shell)
       THEN /\ \E r \in {handle_char(shell, time_manager, 8)} :
                  /\ r.o # <<>> => ConsoleFree
                  /\ shell' = r.sh
                  /\ out' = out \o r.o
                  /\ fg_color' = LastColor(r.o, fg_color)
            /\ last_char' = 8
            /\ hpc' = "kbd_backspace_visual"
       ELSE /\ hpc' = "kbd_eoi"
            /\ UNCHANGED <<shell, last_char, out, fg_color>>
    /\ UNCHANGED <<typed, edited, kbdVars, time_manager, fgVars, irq_locks, keys_delivered,
                   ticks_delivered, since_prompt, eoi_issued, port_log, pics>>
    /\ UNCHANGED auxVars

\* ... handle_backspace(); }: the character before the cursor is erased
KbdBackspaceVisual ==
    /\ KbdPrint("kbd_backspace_visual", <<Backspace>>, "kbd_eoi")
    /\ since_prompt' = [since_prompt EXCEPT !.erased = @ + 1]

\* handle_shell_char(ch): SHELL.lock().handle_char(ch)
KbdShellChar(at, ch, next) ==
    /\ hpc = at
    /\ \E r \in {handle_char(shell, time_manager, ch)} :
          /\ r.o # <<>> => ConsoleFree
          /\ shell' = r.sh
          /\ out' = out \o r.o
          /\ fg_color' = LastColor(r.o, fg_color)
          /\ since_prompt' =
                IF EndsWithPrompt(r.o)
                THEN [appended |-> 0, erased |-> 0]
                ELSE [since_prompt EXCEPT
                        !.appended = @ + (r.sh.buffer_pos - shell.buffer_pos)]
    /\ last_char' = ch
    /\ hpc' = next
    /\ UNCHANGED <<typed, edited, kbdVars, time_manager, fgVars, irq_locks, keys_delivered,
                   ticks_delivered, eoi_issued, port_log, pics>>
    /\ UNCHANGED auxVars

\* '\n': handle_shell_char('\n')
KbdEnter == KbdShellChar("kbd_enter", 10, "kbd_eoi")

\* '\t': ">   " in yellow, nothing reaches the shell
KbdTab ==
    /\ KbdPrint("kbd_tab",
                set_text_color("YELLOW") \o <<Text(">   ")>> \o set_text_color("WHITE"),
                "kbd_eoi")
    /\ UNCHANGED since_prompt

\* ch: handle_shell_char(ch) ...
KbdChar == KbdShellChar("kbd_char", decoded.result.ch, "kbd_char_echo")

\* ... and the character is shown, coloured after the modifiers
KbdCharEcho ==
    /\ KbdPrint("kbd_char_echo",
                set_text_color(CASE keyboard_state.caps_lock
                                      /\ IsAsciiAlphabetic(decoded.result.ch) -> "RED"
                                 [] keyboard_state.shift_pressed -> "BLUE"
                                 [] OTHER -> "GREEN")
                \o <<Chars(<<decoded.result.ch>>)>>
                \o set_text_color("WHITE"),
                "kbd_eoi")
    /\ UNCHANGED since_prompt

\* the unmapped branch showing nothing
KbdUnmapped_silent ==
    /\ KbdPrint("kbd_unmapped", <<>>, "kbd_eoi")
    /\ UNCHANGED since_prompt

\* no character for the scancode: "[{scancode}]" in yellow
KbdUnmapped ==
    /\ KbdPrint("kbd_unmapped",
                set_text_color("YELLOW")
                \o <<Text("["), Num(scancode, "{}"), Text("]")>>
                \o set_text_color("WHITE"),
                "kbd_eoi")
    /\ UNCHANGED since_prompt

\* the handler's last statement: pic::end_of_interrupt(KEYBOARD_INTERRUPT_ID)
KbdEoi == EndOfInterrupt("kbd_eoi", KEYBOARD_INTERRUPT_ID)

\* the timer raises IRQ0
TimerInterrupt ==
    /\ interrupts_enabled
    /\ hpc = "idle"
    /\ Unmasked(pics, 0)
    /\ ticks_delivered < MaxTicks
    /\ hpc' = "timer_tick"
    /\ ticks_delivered' = ticks_delivered + 1
    /\ port_log' = <<>>
    /\ UNCHANGED <<shellVars, kbdVars, time_manager, out, fg_color, fgVars, irq_locks,
                   keys_delivered, since_prompt, eoi_issued, pics>>
    /\ UNCHANGED auxVars

\* the timer handler calling crate::time::tick() twice
TimerTick_twice ==
    /\ hpc = "timer_tick"
    /\ time_manager' = TimeManager_tick(TimeManager_tick(time_manager))
    /\ hpc' = "timer_eoi"
    /\ UNCHANGED <<shellVars, kbdVars, out, fg_color, fgVars, irq_locks, keys_delivered,
                   ticks_delivered, since_prompt, eoi_issued, port_log, pics>>
    /\ UNCHANGED auxVars

\* crate::time::tick()
TimerTick ==
    /\ hpc = "timer_tick"
    /\ time_manager' = TimeManager_tick(time_manager)
    /\ hpc' = "timer_eoi"
    /\ UNCHANGED <<shellVars, kbdVars, out, fg_color, fgVars, irq_locks, keys_delivered,
                   ticks_delivered, since_prompt, eoi_issued, port_log, pics>>
    /\ UNCHANGED auxVars

\* pic::end_of_interrupt(TIMER_INTERRUPT_ID)
TimerEoi == EndOfInterrupt("timer_eoi", TIMER_INTERRUPT_ID)

Init ==
    /\ ShellInit /\ KbdInit /\ ConsoleInit /\ IrqInit /\ AuxInit
    /\ time_manager \in BootTimeStates

Next ==
    \/ FgPrintAcquire
    \/ FgPrintRelease
    \/ FgLoadIdt
    \/ FgPicInit
    \/ FgEnableKeyboard
    \/ FgEnableTimer
    \/ FgEnableInterrupts
    \/ \E sc \in KeyProbes : KeyboardInterrupt(sc)
    \/ KbdEntry
    \/ KbdCapsStatus
    \/ KbdModifierEoi
    \/ KbdBackspace
    \/ KbdBackspaceVisual
    \/ KbdEnter
    \/ KbdTab
    \/ KbdChar
    \/ KbdCharEcho
    \/ KbdUnmapped
    \/ KbdEoi
    \/ TimerInterrupt
    \/ TimerTick
    \/ TimerEoi

Spec == Init /\ [][Next]_vars

-----------------------------------------------------------------------------
(* A key held down once interrupts::init has returned: the keyboard sends   *)
(* the key's scancode again and again, the handler runs for each with the   *)
(* foreground idle in its hlt loop.                                         *)

\* the interrupt system as interrupts::init leaves it
IrqReady ==
    /\ pics = [mask1 |-> 252, mask2 |-> 255, icw1 |-> 0, icw2 |-> 0]
    /\ port_log = <<>>
    /\ fg_pc = Len(InitProgram) + 1
    /\ fg_locks = {}
    /\ irq_locks = {}
    /\ interrupts_enabled = TRUE
    /\ hpc = "idle"
    /\ keys_delivered = 0
    /\ ticks_delivered = 0
    /\ since_prompt = [appended |-> 0, erased |-> 0]
    /\ eoi_issued = [timer |-> 0, keyboard |-> 0]

\* the keys held down: 'a', and 'a' with Caps Lock on
HeldKeyStates == {KeyboardState_new, [KeyboardState_new EXCEPT !.caps_lock = TRUE]}

\* the keyboard controller raises IRQ1 with the scancode of the held key
KeyHeld(sc) ==
    /\ interrupts_enabled
    /\ hpc = "idle"
    /\ Unmasked(pics, 1)
    /\ keys_delivered < MaxHeldKeys
    /\ hpc' = "kbd_entry"
    /\ scancode' = sc
    /\ keys_delivered' = keys_delivered + 1
    /\ port_log' = <<>>
    /\ out' = <<>>
    /\ UNCHANGED <<shellVars, keyboard_state, decoded, is_modifier, time_manager, fg_color,
                   fgVars, irq_locks, ticks_delivered, since_prompt, eoi_issued, pics>>
    /\ UNCHANGED auxVars

InitHeldKey ==
    /\ ShellInit /\ ConsoleInit /\ IrqReady /\ AuxInit
    /\ keyboard_state \in HeldKeyStates
    /\ decoded = [sc |-> 0, shift_pressed |-> FALSE, caps_lock |-> FALSE, result |-> None]
    /\ is_modifier = FALSE
    /\ scancode = 0
    /\ time_manager = TimeManager_initialize(TimeManager_new, DEFAULT_MS_PER_TICK)

NextHeldKey ==
    \/ KeyHeld(30)
    \/ KbdEntry
    \/ KbdChar
    \/ KbdCharEcho
    \/ KbdEoi

SpecHeldKey == InitHeldKey /\ [][NextHeldKey]_vars

-----------------------------------------------------------------------------
(* The spin locks of one keyboard_interrupt_handler run. Each run is the    *)
(* sequence of its lock and unlock operations, made one per step, and then *)
(* its return, with what the run did to the decoder, the shell and the     *)
(* console (nothing else runs meanwhile, so that is fixed on entry): a guard *)
(* `X.lock()` bound to a name lives to the end of its block, a temporary    *)
(* guard to the end of its statement (for `if let`, of the whole `if let`). *)
(* spin::Mutex::lock spins while the mutex is held, whoever holds it.      *)

LockOp(m)   == [op |-> "lock", m |-> m]
UnlockOp(m) == [op |-> "unlock", m |-> m]

\* `M.lock(). ...;`: the guard is taken, `body` runs, the guard is dropped
Locked(m, body) == <<LockOp(m)>> \o body \o <<UnlockOp(m)>>

\* one print!, println! or set_text_color call: WRITER is locked for the call
ConsoleCall == Locked("WRITER", <<>>)

RECURSIVE ConsoleCalls(_)
\* `n` such calls one after the other
ConsoleCalls(n) == IF n = 0 THEN <<>> ELSE ConsoleCall \o ConsoleCalls(n - 1)

\* crate::time::is_initialized, get_uptime, get_tick_count, get_uptime_ms:
\* `TIME_MANAGER.lock().x()`
TimeCall == Locked("TIME_MANAGER", <<>>)

\* pic::end_of_interrupt: `PICS.lock().end_of_interrupt(interrupt_id)`
end_of_interrupt_locks == Locked("PICS", <<[op |-> "eoi", m |-> "PICS"]>>)

cmd_help_locks == ConsoleCalls(24)

\* `if let Some(ref mut writer) = crate::WRITER.lock().as_mut() { .. }`, then the banner
cmd_clear_locks == Locked("WRITER", <<>>) \o ConsoleCalls(4)

cmd_version_locks == ConsoleCalls(20)

\* set_text_color; per argument print!(" ") but for the first, print!("{}", arg); println!()
cmd_echo_locks(args) ==
    ConsoleCalls(1)
    \o (IF args = <<>> THEN <<>> ELSE ConsoleCalls(2 * Len(args) - 1))
    \o ConsoleCalls(1)

cmd_uptime_locks(tm) ==
    TimeCall
    \o (IF ~is_initialized(tm)
        THEN ConsoleCalls(3)
        ELSE TimeCall \o TimeCall \o ConsoleCalls(12)
             \o (IF get_tick_count(tm) > 0 THEN ConsoleCalls(1) ELSE <<>>))

cmd_sysinfo_locks(tm) ==
    ConsoleCalls(6)
    \o TimeCall
    \o (IF is_initialized(tm) THEN TimeCall \o ConsoleCalls(1) ELSE <<>>)
    \o ConsoleCalls(20)

cmd_stats_locks(sh, tm) ==
    ConsoleCalls(7)
    \o TimeCall
    \o (IF is_initialized(tm)
        THEN TimeCall \o (IF get_uptime_ms(tm) > 0 /\ sh.command_count > 0
                          THEN ConsoleCalls(1) ELSE <<>>)
        ELSE <<>>)
    \o ConsoleCalls(4)
    \o TimeCall
    \o (IF is_initialized(tm)
        THEN TimeCall \o (IF get_uptime_seconds(tm) > 0 THEN ConsoleCalls(1) ELSE <<>>)
        ELSE <<>>)
    \o ConsoleCalls(6)

\* execute_command: the locks of the handler the verb selects
execute_command_locks(sh, tm, command) ==
    LET Dispatch(parts) ==
            IF parts = <<>> THEN <<>>
            ELSE LET cmd == Head(parts)
                 IN CASE cmd = VerbHelp    -> cmd_help_locks
                      [] cmd = VerbClear   -> cmd_clear_locks
                      [] cmd = VerbVersion -> cmd_version_locks
                      [] cmd = VerbEcho    -> cmd_echo_locks(Tail(parts))
                      [] cmd = VerbUptime  -> cmd_uptime_locks(tm)
                      [] cmd = VerbSysinfo -> cmd_sysinfo_locks(tm)
                      [] cmd = VerbStats   -> cmd_stats_locks(sh, tm)
                      [] OTHER             -> ConsoleCalls(5)
    IN Bind(split_whitespace(command), Dispatch)

\* process_command: println!(), the command if there is one, show_prompt
process_command_locks(sh, tm) ==
    LET buffer_len == sh.buffer_pos
        Run(command) ==
            LET ran == buffer_len > 0 /\ command # <<>>
                sh1 == IF ran THEN [sh EXCEPT !.command_count = @ + 1] ELSE sh
            IN ConsoleCalls(1)
               \o (IF ran THEN execute_command_locks(sh1, tm, command) ELSE <<>>)
               \o ConsoleCalls(4)
    IN Bind(trim(Snapshot(sh)), Run)

\* Shell::handle_char: only add_char on a full buffer and process_command print
handle_char_locks(sh, tm, ch) ==
    CASE ch = 10        -> process_command_locks(sh, tm)
      [] ch = 8         -> <<>>
      [] IsOrdinary(ch) -> IF sh.buffer_pos < INPUT_BUFFER_SIZE - 1 THEN <<>> ELSE ConsoleCalls(3)
      [] OTHER          -> <<>>

\* crate::handle_shell_char(ch): `SHELL.lock().handle_char(ch)`
handle_shell_char_locks(sh, tm, ch) == Locked("SHELL", handle_char_locks(sh, tm, ch))

\* the backspace arm with the guard of can_backspace() bound to a name, so
\* that it lives to the end of the arm
backspace_locks_guard_kept(sh, tm) ==
    <<LockOp("SHELL")>>
    \o (IF can_backspace(sh)
        THEN handle_shell_char_locks(sh, tm, 8) \o ConsoleCalls(1)
        ELSE <<>>)
    \o <<UnlockOp("SHELL")>>

\* '\x08' => { if SHELL.lock().can_backspace() { handle_shell_char('\x08');
\* handle_backspace(); } }: the guard of the condition is dropped before the block
backspace_locks(sh, tm) ==
    Locked("SHELL", <<>>)
    \o (IF can_backspace(sh)
        THEN handle_shell_char_locks(sh, tm, 8) \o ConsoleCalls(1)
        ELSE <<>>)

\* keyboard_interrupt_handler from `KEYBOARD_STATE.lock()` to its return, for
\* the scancode `sc`, the decoder's state before the call being `state`
keyboard_interrupt_handler_locks(sc, state, sh, tm) ==
    LET modifier == handle_modifier_key_result(sc)
        after == handle_modifier_key_state(state, sc)
        at == AfterModifier(sc, modifier, after)
        ch == scancode_to_char(sc, after.shift_pressed, after.caps_lock)
    IN <<LockOp("KEYBOARD_STATE")>>
       \o (CASE at = "kbd_caps_status"  -> ConsoleCalls(3)
             [] at = "kbd_modifier_eoi" -> <<>>
             [] at = "kbd_eoi"          -> <<>>
             [] at = "kbd_unmapped"     -> ConsoleCalls(3)
             [] at = "kbd_backspace"    -> backspace_locks(sh, tm)
             [] at = "kbd_enter"        -> handle_shell_char_locks(sh, tm, 10)
             [] at = "kbd_tab"          -> ConsoleCalls(3)
             [] OTHER -> handle_shell_char_locks(sh, tm, ch.ch) \o ConsoleCalls(3))
       \o end_of_interrupt_locks
       \o <<UnlockOp("KEYBOARD_STATE")>>

\* what a run of keyboard_interrupt_handler leaves behind: the decoder's
\* state, the shell, and what it printed
keyboard_interrupt_handler(sc, state, sh, tm) ==
    LET modifier == handle_modifier_key_result(sc)
        after == handle_modifier_key_state(state, sc)
        at == AfterModifier(sc, modifier, after)
        ch == scancode_to_char(sc, after.shift_pressed, after.caps_lock)
        Yellow(items) == set_text_color("YELLOW") \o items \o set_text_color("WHITE")
        Echo(r, c) ==
            [sh |-> r.sh,
             o  |-> r.o
                    \o set_text_color(CASE after.caps_lock /\ IsAsciiAlphabetic(c) -> "RED"
                                        [] after.shift_pressed -> "BLUE"
                                        [] OTHER -> "GREEN")
                    \o <<Chars(<<c>>)>> \o set_text_color("WHITE")]
        Erase(r) == [sh |-> r.sh, o |-> r.o \o <<Backspace>>]
        done ==
            CASE at = "kbd_caps_status" ->
                    [sh |-> sh,
                     o  |-> Yellow(<<Text(IF after.caps_lock THEN " [CAPS ON] "
                                          ELSE " [CAPS OFF] ")>>)]
              [] at = "kbd_modifier_eoi" -> [sh |-> sh, o |-> <<>>]
              [] at = "kbd_eoi"          -> [sh |-> sh, o |-> <<>>]
              [] at = "kbd_unmapped" ->
                    [sh |-> sh, o |-> Yellow(<<Text("["), Num(sc, "{}"), Text("]")>>)]
              [] at = "kbd_backspace" ->
                    IF can_backspace(sh)
                    THEN Bind(handle_char(sh, tm, 8), Erase)
                    ELSE [sh |-> sh, o |-> <<>>]
              [] at = "kbd_enter" -> handle_char(sh, tm, 10)
              [] at = "kbd_tab"   -> [sh |-> sh, o |-> Yellow(<<Text(">   ")>>)]
              [] OTHER -> LET Shown(r) == Echo(r, ch.ch)
                          IN Bind(handle_char(sh, tm, ch.ch), Shown)
    IN [state |-> after, sh |-> done.sh, o |-> done.o, modifier |-> modifier,
        called |-> CASE at = "kbd_backspace" /\ can_backspace(sh) -> 8
                     [] at = "kbd_enter" -> 10
                     [] at = "kbd_char"  -> ch.ch
                     [] OTHER -> 0]

\* everything but what a handler run reads and writes
lockFrame ==
    <<time_manager, typed, edited, fg_pc, fg_locks, interrupts_enabled, ticks_delivered,
      since_prompt, shift_keys_down, modifier_calls, clock_calls, writer, writer_call,
      pic_call, pit, pit_device, buffer, bytes_per_pixel, pixel_call, uptime_read>>

RECURSIVE TypeLine(_, _)
\* the shell once `line` was typed into it
TypeLine(sh, line) ==
    IF line = <<>> THEN sh ELSE TypeLine(add_char(sh, Head(line)).sh, Tail(line))

\* the shells a key may find: the prompt just shown, a line typed, the buffer full
LockShells ==
    {Shell_new}
    \cup { TypeLine(Shell_new, line) : line \in TypedLines }
    \cup { [Shell_new EXCEPT
              !.input_buffer = [i \in 0..(INPUT_BUFFER_SIZE - 1) |->
                                  IF i < INPUT_BUFFER_SIZE - 1 THEN 120 ELSE 0],
              !.buffer_pos = INPUT_BUFFER_SIZE - 1] }

\* the scancodes a run reads: Caps Lock, left Shift pressed and released, Backspace,
\* Enter, Tab, 'a', a key without a character, a key released
LockScancodes == {58, 42, 170, 14, 28, 15, 30, 1, 158}

\* the keyboard controller raises IRQ1 with the byte `sc` at port 0x60
LockInterrupt(sc) ==
    /\ interrupts_enabled
    /\ hpc = "idle"
    /\ Unmasked(pics, 1)
    /\ keys_delivered < MaxLockRuns
    /\ hpc' = "kbd_run"
    /\ scancode' = sc
    /\ keys_delivered' = keys_delivered + 1
    /\ lock_ops' = keyboard_interrupt_handler_locks(sc, keyboard_state, shell, time_manager)
                   \o <<[op |-> "return",
                         r  |-> keyboard_interrupt_handler(sc, keyboard_state, shell,
                                                           time_manager)]>>
    /\ port_log' = <<>>
    /\ out' = <<>>
    /\ UNCHANGED <<shell, last_char, keyboard_state, decoded, is_modifier, fg_color,
                   irq_locks, eoi_issued, pics>>
    /\ UNCHANGED lockFrame

\* the run's next operation is `M.lock()`: it returns once nobody holds M
LockAcquire ==
    /\ hpc = "kbd_run"
    /\ lock_ops # <<>>
    /\ Head(lock_ops).op = "lock"
    /\ Head(lock_ops).m \notin irq_locks \cup fg_locks
    /\ irq_locks' = irq_locks \cup {Head(lock_ops).m}
    /\ lock_ops' = Tail(lock_ops)
    /\ UNCHANGED <<shell, last_char, kbdVars, out, fg_color, hpc, keys_delivered,
                   eoi_issued, port_log, pics>>
    /\ UNCHANGED lockFrame

\* the run's next operation is the drop of the guard of M
LockRelease ==
    /\ hpc = "kbd_run"
    /\ lock_ops # <<>>
    /\ Head(lock_ops).op = "unlock"
    /\ irq_locks' = irq_locks \ {Head(lock_ops).m}
    /\ lock_ops' = Tail(lock_ops)
    /\ UNCHANGED <<shell, last_char, kbdVars, out, fg_color, hpc, keys_delivered,
                   eoi_issued, port_log, pics>>
    /\ UNCHANGED lockFrame

\* Pics::end_of_interrupt(KEYBOARD_INTERRUPT_ID) under the guard of PICS
LockEoi ==
    /\ hpc = "kbd_run"
    /\ lock_ops # <<>>
    /\ Head(lock_ops).op = "eoi"
    /\ port_log' = port_log \o Pics_end_of_interrupt(KEYBOARD_INTERRUPT_ID)
    /\ pics' = PortWrites(pics, Pics_end_of_interrupt(KEYBOARD_INTERRUPT_ID))
    /\ eoi_issued' = [eoi_issued EXCEPT !.keyboard = @ + 1]
    /\ lock_ops' = Tail(lock_ops)
    /\ UNCHANGED <<shell, last_char, kbdVars, out, fg_color, hpc, keys_delivered,
                   irq_locks>>
    /\ UNCHANGED lockFrame

\* the handler returns: what it did to the decoder, the shell and the console
LockReturn ==
    /\ hpc = "kbd_run"
    /\ lock_ops # <<>>
    /\ Head(lock_ops).op = "return"
    /\ \E r \in {Head(lock_ops).r} :
          /\ keyboard_state' = r.state
          /\ is_modifier' = r.modifier
          /\ decoded' = IF ~r.modifier /\ scancode < 128
                        THEN Decode(scancode, r.state)
                        ELSE decoded
          /\ shell' = r.sh
          /\ last_char' = IF r.called = 0 THEN last_char ELSE r.called
          /\ out' = r.o
          /\ fg_color' = LastColor(r.o, fg_color)
    /\ lock_ops' = Tail(lock_ops)
    /\ hpc' = "idle"
    /\ UNCHANGED <<scancode, irq_locks, keys_delivered, eoi_issued, port_log, pics>>
    /\ UNCHANGED lockFrame

\* the interrupt system ready, nobody holding a lock, a line at the prompt
InitLocks ==
    /\ ConsoleInit /\ IrqReady /\ AuxInit
    /\ shell \in LockShells
    /\ last_char = 0 /\ typed = 0 /\ edited = FALSE
    /\ keyboard_state \in HeldKeyStates
    /\ decoded = [sc |-> 0, shift_pressed |-> FALSE, caps_lock |-> FALSE, result |-> None]
    /\ is_modifier = FALSE
    /\ scancode = 0
    /\ time_manager \in ShellTimeStates

\* the steps of the running handler
LockRun == LockAcquire \/ LockRelease \/ LockEoi \/ LockReturn

NextLocks ==
    \/ \E sc \in LockScancodes : LockInterrupt(sc)
    \/ LockRun

SpecLocks == InitLocks /\ [][NextLocks]_vars

\* the processor executes the handler it entered: a handler that can take
\* its next step takes it
SpecLocksFair == SpecLocks /\ WF_vars(LockRun)

-----------------------------------------------------------------------------
(* Properties of the shell (checked under SpecShell).                      *)

\* the buffered line holds a character that is not a blank
HasNonBlank(line) == \E i \in 1..Len(line) : line[i] # 32

Printed(item) == \E i \in 1..Len(out) : out[i] = item

\* C4: after any sequence of handle_char calls 0 <= buffer_pos <= 255, and the
\* last slot of the input buffer has never been written.
C4_BufferPosInRange ==
    /\ shell.buffer_pos >= 0
    /\ shell.buffer_pos <= INPUT_BUFFER_SIZE - 1
    /\ shell.input_buffer[INPUT_BUFFER_SIZE - 1] = 0

\* C4 witness: the buffer is full and one more character was offered to it; and a
\* backspace was handled on an empty buffer.
C4_Witness ==
    \/ shell.buffer_pos = INPUT_BUFFER_SIZE - 1 /\ typed = INPUT_BUFFER_SIZE
    \/ shell.buffer_pos = 0 /\ last_char = 8 /\ edited

\* C5: 256 ordinary characters from an empty buffer leave buffer_pos = 255; an
\* add_char at buffer_pos = 255 changes nothing of the Shell and prints the
\* BUFFER FULL diagnostic; a backspace or a newline on the full buffer works.
C5_FullBufferDropsWithDiagnostic ==
    /\ [](~edited => shell.buffer_pos = Min(typed, INPUT_BUFFER_SIZE - 1))
    /\ [][(shell.buffer_pos = INPUT_BUFFER_SIZE - 1 /\ IsOrdinary(last_char'))
            => /\ shell' = shell
               /\ out' = <<Col("RED"), Text(" [BUFFER FULL] "), Col("WHITE")>>]_vars
    /\ [][(shell.buffer_pos = INPUT_BUFFER_SIZE - 1 /\ last_char' = 8)
            => shell'.buffer_pos = INPUT_BUFFER_SIZE - 2]_vars
    /\ [][(shell.buffer_pos = INPUT_BUFFER_SIZE - 1 /\ last_char' = 10)
            => shell'.buffer_pos = 0 /\ EndsWithPrompt(out')]_vars

\* C5 witness: the 256th character of an unedited line has just been dropped.
C5_Witness ==
    /\ typed = INPUT_BUFFER_SIZE /\ ~edited
    /\ shell.buffer_pos = INPUT_BUFFER_SIZE - 1
    /\ Printed(Text(" [BUFFER FULL] "))

\* C7: command_count never decreases; a newline on a line with a non-blank
\* character adds exactly one; every other call leaves it alone; a bare newline
\* redraws the prompt.
C7_CommandCountMonotonic ==
    [][LET line == Snapshot(shell)
           counted == last_char' = 10 /\ HasNonBlank(line)
       IN /\ shell'.command_count >= shell.command_count
          /\ counted => shell'.command_count = shell.command_count + 1
          /\ ~counted => shell'.command_count = shell.command_count
          /\ (last_char' = 10 /\ line = <<>>) =>
                /\ out' = <<Nl>> \o PromptOutput
                /\ shell'.cursor_at_prompt_start]_vars

\* C7 witness: an unknown verb was dispatched and counted after another command,
\* and a bare newline left the count alone.
C7_Witness ==
    \/ /\ last_char = 10 /\ shell.command_count = 2
       /\ Printed(Text("Unknown command: '"))
    \/ /\ last_char = 10 /\ shell.command_count = 1 /\ out = <<Nl>> \o PromptOutput

\* C8: every newline leaves buffer_pos = 0, all 256 bytes zero and the prompt
\* redrawn; the command that runs is the one the buffer held before the clear.
C8_NewlineClearsAndPrompts ==
    /\ [](last_char = 10 =>
            /\ shell.buffer_pos = 0
            /\ \A i \in 0..(INPUT_BUFFER_SIZE - 1) : shell.input_buffer[i] = 0
            /\ EndsWithPrompt(out)
            /\ shell.cursor_at_prompt_start)
    /\ [][(last_char' = 10 /\ HasNonBlank(Snapshot(shell)))
            => /\ Len(out') > 1 + Len(PromptOutput)
               /\ Snapshot(shell) = VerbHelp
                    => SubSeq(out', 2, 3) = <<Col("CYAN"), Text("=== Rust OS Shell Commands ===")>>
               /\ Snapshot(shell) = <<120, 120>>
                    => SubSeq(out', 3, 4) = <<Text("Unknown command: '"), Chars(<<120, 120>>)>>]_vars

\* C8 witness: a newline dispatched the known verb help, and one a blank line.
C8_Witness ==
    \/ /\ last_char = 10 /\ shell.buffer_pos = 0
       /\ Printed(Text("=== Rust OS Shell Commands ==="))
    \/ /\ last_char = 10 /\ shell.buffer_pos = 0 /\ typed = 0 /\ shell.command_count = 0
       /\ out = <<Nl>> \o PromptOutput

-----------------------------------------------------------------------------
(* Properties of the keyboard decoder (checked under SpecKbd).             *)

\* the letters of the three letter rows, in scancode order
QwertyRow == <<113, 119, 101, 114, 116, 121, 117, 105, 111, 112>>   \* qwertyuiop, 0x10..0x19
AsdfRow   == <<97, 115, 100, 102, 103, 104, 106, 107, 108>>         \* asdfghjkl,  0x1E..0x26
ZxcvRow   == <<122, 120, 99, 118, 98, 110, 109>>                    \* zxcvbnm,    0x2C..0x32

LetterScancodes == (16..25) \cup (30..38) \cup (44..50)

LowerOf(sc) ==
    CASE sc \in 16..25 -> QwertyRow[sc - 15]
      [] sc \in 30..38 -> AsdfRow[sc - 29]
      [] sc \in 44..50 -> ZxcvRow[sc - 43]

\* digit row 0x02..0x0B and the punctuation keys
DigitPunctScancodes == (2..11) \cup {12, 13, 26, 27, 39, 40, 41, 43, 51, 52, 53}

\* C9: a letter scancode decodes to the lower-case letter when shift and caps
\* lock agree, and to the upper-case letter when exactly one of them is set.
C9_LetterCaseIsXor ==
    decoded.sc \in LetterScancodes =>
        decoded.result =
            Some(IF decoded.shift_pressed # decoded.caps_lock
                 THEN LowerOf(decoded.sc) - 32 ELSE LowerOf(decoded.sc))

\* C9 witness: 'a' decoded with shift held and caps lock on gave the lower case.
C9_Witness ==
    /\ decoded.sc = 30 /\ decoded.shift_pressed /\ decoded.caps_lock
    /\ decoded.result = Some(97)

\* C10: of two successive decodes of one digit or punctuation key, a change of
\* caps lock alone leaves the character the same and a change of shift changes it.
C10_CapsLockIgnoredOnDigitsPunct ==
    [][(decoded'.sc = decoded.sc /\ decoded.sc \in DigitPunctScancodes)
         => /\ decoded'.shift_pressed = decoded.shift_pressed
                 => decoded'.result = decoded.result
            /\ decoded'.shift_pressed # decoded.shift_pressed
                 => decoded'.result.ch # decoded.result.ch
            /\ decoded'.result.some]_vars

\* C10 witness: the key 1 decoded with caps lock on and no shift gave '1'.
C10_Witness ==
    /\ decoded.sc = 2 /\ decoded.caps_lock /\ ~decoded.shift_pressed
    /\ decoded.result = Some(49)

-----------------------------------------------------------------------------
(* Properties of the interrupt system (checked under Spec).                *)

\* the running handler's next statement prints, so takes the console lock
NeedsConsole ==
    \/ hpc \in { "kbd_caps_status", "kbd_backspace_visual", "kbd_enter", "kbd_tab",
                 "kbd_char_echo", "kbd_unmapped" }
    \/ hpc = "kbd_char" /\ shell.buffer_pos >= INPUT_BUFFER_SIZE - 1

\* the handler waits on the console lock that the preempted foreground holds
WaitsOnForeground == NeedsConsole /\ "WRITER" \in fg_locks

\* C1: under every interleaving of the foreground (printing after interrupts
\* are enabled) with the timer and keyboard interrupts, no state is reachable
\* in which a handler waits on a lock held by the preempted foreground.
C1_NoHandlerWaitsOnForeground == ~WaitsOnForeground

\* C2: when a keyboard interrupt is delivered while the foreground holds the
\* console lock and the handler comes to print, the handler waits for ever:
\* no step is taken from that state (the foreground does not resume, the lock
\* is not released), and the interrupt has not been acknowledged.
C2_HandlerSpinsForever ==
    /\ [](WaitsOnForeground => eoi_issued.keyboard < keys_delivered)
    /\ [][WaitsOnForeground =>
            (WaitsOnForeground' /\ UNCHANGED <<hpc, fg_pc, fg_locks, eoi_issued>>)]_vars

\* C2 witness: the handler of an ordinary character has reached its print while
\* the last println! of interrupts::init holds the console lock
C2_Witness ==
    /\ WaitsOnForeground
    /\ hpc = "kbd_char_echo"
    /\ fg_pc = Len(InitProgram)
    /\ eoi_issued.keyboard = keys_delivered - 1

\* C3: every run of the keyboard handler that completes has issued
\* end_of_interrupt(KEYBOARD_INTERRUPT_ID) exactly once (none while it runs, one
\* per completed run), the acknowledgment is the single write of 0x20 to the
\* primary command port, and it is the run's last step: the handler returns
\* with it, and it changes no keyboard, shell or console state.
C3_EoiOnceAndLast ==
    /\ [](eoi_issued.keyboard = keys_delivered - (IF hpc \in KeyboardPcs THEN 1 ELSE 0))
    /\ [][hpc' = "idle" /\ hpc \in KeyboardPcs =>
            (/\ UNCHANGED <<shell, keyboard_state, out, fg_color>>
             /\ port_log = <<>>
             /\ port_log' = <<W(PIC1_COMMAND, PIC_EOI)>>
             /\ eoi_issued'.keyboard = eoi_issued.keyboard + 1)]_vars
    /\ [][eoi_issued'.keyboard # eoi_issued.keyboard =>
            hpc \in KeyboardPcs /\ hpc' = "idle"]_vars

\* C3 witness: three runs have completed, among them a Caps Lock press, an
\* appended character and a permitted backspace
C3_Witness ==
    /\ hpc = "idle"
    /\ eoi_issued.keyboard >= 3
    /\ keyboard_state.caps_lock
    /\ since_prompt.appended >= 1
    /\ since_prompt.erased >= 1

\* C6: the handler forwards a backspace to the shell, and erases on the
\* screen, only when the buffer holds a character, and buffer_pos then drops
\* by one; on an empty buffer the backspace changes neither shell nor console.
\* Since the prompt, the visual backspaces never outnumber the characters
\* appended to the buffer.
C6_BackspaceOnlyWithContent ==
    /\ [](since_prompt.erased <= since_prompt.appended)
    /\ [][hpc = "kbd_backspace" =>
            (IF shell.buffer_pos > 0
             THEN (/\ last_char' = 8
                   /\ shell'.buffer_pos = shell.buffer_pos - 1
                   /\ hpc' = "kbd_backspace_visual")
             ELSE (/\ hpc' = "kbd_eoi"
                   /\ shell' = shell /\ out' = out /\ fg_color' = fg_color
                   /\ since_prompt' = since_prompt))]_vars
    /\ [][since_prompt'.erased > since_prompt.erased =>
            (/\ hpc = "kbd_backspace_visual"
             /\ out' = out \o <<Backspace>>
             /\ since_prompt'.erased = since_prompt.erased + 1)]_vars

\* C6 witness: a backspace on the emptied buffer has been refused (nothing
\* printed, nothing forwarded) after a permitted one erased the only character
C6_Witness ==
    /\ hpc = "kbd_eoi"
    /\ scancode = 14
    /\ out = <<>>
    /\ shell.buffer_pos = 0
    /\ since_prompt = [appended |-> 1, erased |-> 1]

-----------------------------------------------------------------------------
(* Properties of the modifier keys (checked under SpecModifier).           *)

\* C11: two Caps Lock presses (0x3A) in a row give back the caps_lock the
\* first found and leave shift_pressed as it was; the Caps Lock release
\* (0xBA) changes no field of the KeyboardState.
C11_CapsLockToggleInvolution ==
    /\ (Len(modifier_calls) = 2 /\ modifier_calls[1].sc = 58 /\ modifier_calls[2].sc = 58)
          => /\ keyboard_state.caps_lock = modifier_calls[1].before.caps_lock
             /\ keyboard_state.shift_pressed = modifier_calls[1].before.shift_pressed
             /\ modifier_calls[2].before.caps_lock = ~modifier_calls[1].before.caps_lock
    /\ (Len(modifier_calls) >= 1 /\ modifier_calls[Len(modifier_calls)].sc = 186)
          => keyboard_state = modifier_calls[Len(modifier_calls)].before

\* C11 witness: Caps Lock was pressed twice while it was on and Shift was held
C11_Witness ==
    /\ Len(modifier_calls) = 2
    /\ modifier_calls[1].sc = 58 /\ modifier_calls[2].sc = 58
    /\ modifier_calls[1].before.caps_lock
    /\ modifier_calls[1].before.shift_pressed
    /\ keyboard_state.caps_lock

\* C12: after any sequence of scancodes, shift_pressed is true exactly when
\* one of the two Shift keys has been pressed and not yet released by its own
\* release scancode.
C12_ShiftTracksHeldKeys ==
    keyboard_state.shift_pressed <=> (shift_keys_down # {})

-----------------------------------------------------------------------------
(* Further properties of the interrupt system (checked under Spec).        *)

\* the positions of the keyboard handler on the way of a decoded character
CharacterPcs ==
    { "kbd_backspace", "kbd_backspace_visual", "kbd_enter", "kbd_tab",
      "kbd_char", "kbd_char_echo" }

\* C13: while the keyboard handler runs for a modifier scancode (0x2A, 0x36,
\* 0xAA, 0xB6, 0x3A) or for a release scancode (>= 0x80), no step decodes a
\* character, enters a character's branch or calls the shell: the shell
\* (input_buffer, buffer_pos, command_count) is unchanged.
C13_ModifiersAndReleasesYieldNoCharacter ==
    [][(hpc \in KeyboardPcs /\ (scancode \in {42, 54, 170, 182, 58} \/ scancode >= 128))
         => (/\ shell' = shell
             /\ last_char' = last_char
             /\ decoded' = decoded
             /\ hpc' \notin CharacterPcs)]_vars

\* C13 witness: with Shift held and a character in the buffer, the handler is
\* about to acknowledge the release of a key
C13_Witness ==
    /\ hpc = "kbd_eoi"
    /\ scancode = 158
    /\ keyboard_state.shift_pressed
    /\ shell.buffer_pos = 1
    /\ eoi_issued.keyboard >= 2

-----------------------------------------------------------------------------
(* Properties of the clock (checked under SpecClock).                      *)

\* C14: N tick() calls after initialize(10) give get_uptime_ms() = 10 * N and
\* get_uptime_seconds() = (10 * N) / 1000, whatever ticks or initialize calls
\* came before that initialize: initialize starts the elapsed time at zero.
C14_UptimeIsTenTimesTicks ==
    /\ [](time_manager.initialized /\ time_manager.ms_per_tick = 10
            => /\ get_uptime_ms(time_manager) = 10 * clock_calls.ticks
               /\ get_uptime_seconds(time_manager) = (10 * clock_calls.ticks) \div 1000)
    /\ [][clock_calls'.last = "initialize"
            => (get_uptime_ms(time_manager') = 0 /\ get_tick_count(time_manager') = 0)]_vars

\* C14 witness: the clock was initialized a second time, after ticks, and has
\* since counted 150 ticks: 1500 ms, 1 s
C14_Witness ==
    /\ clock_calls.inits = 2
    /\ clock_calls.ticks = 150
    /\ time_manager.ms_per_tick = 10
    /\ get_uptime_ms(time_manager) = 1500
    /\ get_uptime_seconds(time_manager) = 1

\* C15: while the clock is uninitialized tick() changes nothing, and
\* get_uptime_ms, get_uptime_seconds, get_tick_count and every field of
\* get_uptime_formatted are 0; system_ticks is 0 whenever initialized is false.
C15_UninitializedClockStaysZero ==
    /\ [](~time_manager.initialized
            => /\ time_manager.system_ticks = 0
               /\ get_uptime_ms(time_manager) = 0
               /\ get_uptime_seconds(time_manager) = 0
               /\ get_tick_count(time_manager) = 0
               /\ get_uptime_formatted(time_manager) =
                     [days |-> 0, hours |-> 0, minutes |-> 0, seconds |-> 0,
                      milliseconds |-> 0, total_ms |-> 0, total_seconds |-> 0])
    /\ [][~time_manager.initialized /\ clock_calls'.last = "tick"
            => time_manager' = time_manager]_vars

\* C15 witness: tick() was called three times on the clock never initialized
C15_Witness ==
    /\ ~time_manager.initialized
    /\ clock_calls = [last |-> "tick", ticks |-> 3, inits |-> 0]

\* C16: a timer interrupt performs one tick() and then one
\* end_of_interrupt(TIMER_INTERRUPT_ID), the handler's last step, and changes
\* no console, shell or keyboard state; the tick count of an initialized clock
\* is the number of timer interrupts whose tick() has run.
C16_TimerTicksOnceThenAcknowledges ==
    /\ [](eoi_issued.timer = ticks_delivered - (IF hpc \in TimerPcs THEN 1 ELSE 0))
    /\ [](time_manager.system_ticks =
             IF time_manager.initialized
             THEN ticks_delivered - (IF hpc = "timer_tick" THEN 1 ELSE 0)
             ELSE 0)
    /\ [][(hpc \in TimerPcs \/ hpc' \in TimerPcs)
            => UNCHANGED <<shell, last_char, keyboard_state, decoded, out, fg_color>>]_vars
    /\ [][(hpc = "timer_tick")
            => (/\ time_manager' = TimeManager_tick(time_manager)
                /\ eoi_issued' = eoi_issued
                /\ hpc' = "timer_eoi")]_vars
    /\ [][(hpc = "timer_eoi")
            => (/\ time_manager' = time_manager
                /\ eoi_issued' = [eoi_issued EXCEPT !.timer = @ + 1]
                /\ port_log' = <<W(PIC1_COMMAND, PIC_EOI)>>
                /\ hpc' = "idle")]_vars

\* C16 witness: two timer interrupts have been handled on the initialized
\* clock, a typed character in between
C16_Witness ==
    /\ hpc = "idle"
    /\ ticks_delivered = 2
    /\ eoi_issued.timer = 2
    /\ time_manager.initialized
    /\ time_manager.system_ticks = 2
    /\ shell.buffer_pos = 1

-----------------------------------------------------------------------------
(* Properties of the Writer (checked under SpecWriter).                    *)

\* where the cursor's row is after a newline from the Writer `w`
NextRowY(w) ==
    IF w.cursor_y + char_height + char_height > w.height
    THEN w.height - char_height
    ELSE w.cursor_y + char_height

\* the row of the Writer `w` holds no further glyph after `row` of them
RowFull(w, row) == row >= w.width \div char_width

\* C17: after any sequence of write_char / write_string calls on a surface at
\* least one glyph row high, cursor_y + char_height <= info.height, and every
\* glyph was drawn at a row that lies wholly on the surface.
C17_CursorStaysOnSurface ==
    /\ writer.cursor_y >= 0
    /\ writer.cursor_y + char_height <= writer.height
    /\ \A i \in 1..Len(writer_call.draws) :
          /\ writer_call.draws[i].y >= 0
          /\ writer_call.draws[i].y + char_height <= writer.height

\* C17 witness: on a surface of two and a half glyph rows a call has scrolled
\* and then drawn a glyph on the last row that fits
C17_Witness ==
    /\ writer.height = 40
    /\ writer_call.scrolls >= 1
    /\ Len(writer_call.draws) >= 1
    /\ writer_call.draws[Len(writer_call.draws)].y = 24
    /\ writer.cursor_y = 24

\* C18: cursor_x is char_width times the glyphs written since it was 0; a
\* character written when the row is full (floor(width / char_width) glyphs) is
\* drawn at x = 0 of the next glyph row, otherwise at the cursor; every
\* newline, explicit or by wrapping, that would leave cursor_y + char_height >
\* height calls scroll_up exactly once and leaves cursor_y = height -
\* char_height, and any other newline moves the cursor down one row unscrolled.
C18_WrapAndScroll ==
    /\ [](writer.cursor_x = char_width * writer_call.row)
    /\ [][(writer_call'.op = "write_char" /\ writer_call'.s[1] \notin {10, 13})
            => IF RowFull(writer, writer_call.row)
               THEN (/\ writer_call'.draws = <<[x |-> 0, y |-> NextRowY(writer)]>>
                     /\ writer'.cursor_x = char_width)
               ELSE (/\ writer_call'.draws = <<[x |-> writer.cursor_x, y |-> writer.cursor_y]>>
                     /\ writer'.cursor_x = writer.cursor_x + char_width
                     /\ writer'.cursor_y = writer.cursor_y
                     /\ writer_call'.scrolls = 0)]_vars
    /\ [][(writer_call'.op = "write_char"
             /\ (writer_call'.s[1] = 10
                   \/ (writer_call'.s[1] # 13 /\ RowFull(writer, writer_call.row))))
            => IF writer.cursor_y + char_height + char_height > writer.height
               THEN (writer_call'.scrolls = 1
                       /\ writer'.cursor_y = writer.height - char_height)
               ELSE (writer_call'.scrolls = 0
                       /\ writer'.cursor_y = writer.cursor_y + char_height)]_vars

\* C18 witness: the fourth glyph of a row three glyphs wide, on the last row:
\* the write wrapped, scrolled once and drew at x = 0 of the last row
C18_Witness ==
    /\ writer_call.op = "write_char"
    /\ writer_call.s = <<65>>
    /\ writer_call.before.cursor_x = 48
    /\ writer_call.before.width = 48
    /\ writer_call.before.cursor_y = writer.height - char_height
    /\ writer_call.scrolls = 1
    /\ writer_call.draws = <<[x |-> 0, y |-> writer.height - char_height]>>
    /\ writer.cursor_x = char_width

-----------------------------------------------------------------------------
(* Properties of the interrupt controller driver (checked under SpecPic).  *)

\* the writes of the EOI command among the port writes `ws`, in order
RECURSIVE Acknowledgments(_)
Acknowledgments(ws) ==
    IF ws = <<>> THEN <<>>
    ELSE (IF Head(ws).value = PIC_EOI /\ Head(ws).port \in {PIC1_COMMAND, PIC2_COMMAND}
          THEN <<Head(ws).port>> ELSE <<>>) \o Acknowledgments(Tail(ws))

\* C19: end_of_interrupt(v) acknowledges on the secondary controller and then
\* on the primary (two acknowledgments, in that order) when v >= PIC2_OFFSET,
\* and once, on the primary only, when v is in 32..39; it writes nothing else.
C19_EoiSecondaryThenPrimary ==
    pic_call.op = "end_of_interrupt"
       => /\ Acknowledgments(port_log) =
                IF pic_call.arg >= 40 THEN <<PIC2_COMMAND, PIC1_COMMAND>>
                ELSE <<PIC1_COMMAND>>
          /\ Len(port_log) = Len(Acknowledgments(port_log))

\* C19 witness: vector 40, the first of the secondary controller, has been
\* acknowledged after initialize
C19_Witness ==
    /\ pic_call = [op |-> "end_of_interrupt", arg |-> 40, initialized |-> TRUE]
    /\ port_log = <<W(PIC2_COMMAND, PIC_EOI), W(PIC1_COMMAND, PIC_EOI)>>

\* C20: after initialize and any enable_interrupt calls, whenever a line of
\* the secondary controller (IRQ 8-15) is unmasked, the cascade line of the
\* primary (IRQ2, bit 2 of its mask) is unmasked too.
C20_CascadeUnmaskedWithSecondary ==
    (pic_call.initialized /\ pics.mask2 # 255) => Bit(pics.mask1, 2) = 0

\* the lines of the mask `m` that are not masked
OpenLines(m) == {i \in 0..7 : Bit(m, i) = 0}

\* C21: initialize ends with both mask registers 0xFF and no initialization
\* word pending; afterwards enable_interrupt(irq) clears exactly bit irq mod 8
\* of the primary mask for irq 0-7 and of the secondary mask for irq 8-15 and
\* leaves every other bit of both masks alone; a line becomes unmasked only in
\* the enable_interrupt call that names it.
C21_MaskedUntilEnabled ==
    /\ [](pic_call.op = "initialize"
            => pics = [mask1 |-> 255, mask2 |-> 255, icw1 |-> 0, icw2 |-> 0])
    /\ [][(pic_call.initialized /\ pic_call'.op = "enable_interrupt")
            => (IF pic_call'.arg < 8
                THEN (/\ pics'.mask1 = ClearBit(pics.mask1, pic_call'.arg)
                      /\ OpenLines(pics'.mask1) = OpenLines(pics.mask1) \cup {pic_call'.arg}
                      /\ pics'.mask2 = pics.mask2)
                ELSE (/\ pics'.mask2 = ClearBit(pics.mask2, pic_call'.arg - 8)
                      /\ OpenLines(pics'.mask2) = OpenLines(pics.mask2) \cup {pic_call'.arg - 8}
                      /\ pics'.mask1 = pics.mask1))]_vars
    /\ [][(pic_call.initialized /\ pic_call'.op # "enable_interrupt")
            => (/\ OpenLines(pics'.mask1) \subseteq OpenLines(pics.mask1)
                /\ OpenLines(pics'.mask2) \subseteq OpenLines(pics.mask2))]_vars

\* C21 witness: after initialize the keyboard line and then the last line of
\* the secondary controller have been enabled, nothing else
C21_Witness ==
    /\ pic_call.initialized
    /\ pic_call.op = "enable_interrupt" /\ pic_call.arg = 15
    /\ pics = [mask1 |-> 253, mask2 |-> 127, icw1 |-> 0, icw2 |-> 0]


-----------------------------------------------------------------------------
(* Properties of the command dispatcher (checked under SpecShell).         *)

\* the bytes an output item puts on the console: a formatted &str, the
\* newline, the one-space literal; colours put none; 0 stands for anything else
RenderedItem(it) ==
    CASE it.k = "chars" -> it.cs
      [] it.k = "nl"    -> <<10>>
      [] it.k = "color" -> <<>>
      [] it = Text(" ") -> <<32>>
      [] OTHER          -> <<0>>

RECURSIVE Rendered(_)
Rendered(o) == IF o = <<>> THEN <<>> ELSE RenderedItem(Head(o)) \o Rendered(Tail(o))

\* the first whitespace-delimited token of `line` (<<>> if it has none)
FirstToken(line) ==
    IF NonBlankAt(line) = {} THEN <<>>
    ELSE LET from == Least(NonBlankAt(line))
             blanks == {i \in from..Len(line) : IsWhitespace(line[i])}
         IN SubSeq(line, from, IF blanks = {} THEN Len(line) ELSE Least(blanks) - 1)

\* what the command of a dispatch printed: the output between the echoed
\* newline and the prompt
CommandOutput(o) == SubSeq(o, 2, Len(o) - Len(PromptOutput))

\* the characters of `s` that are not blanks, in order
RECURSIVE NonBlanks(_)
NonBlanks(s) ==
    IF s = <<>> THEN <<>>
    ELSE (IF IsWhitespace(Head(s)) THEN <<>> ELSE <<Head(s)>>) \o NonBlanks(Tail(s))

\* C22: a dispatched line whose verb is echo prints, in white, its argument
\* tokens joined by exactly one space each, no space before the first or after
\* the last, then one newline, however many blanks separate or surround the
\* tokens; echo without arguments prints just the newline.
C22_EchoJoinsWithSingleSpaces ==
    [][(last_char' = 10 /\ FirstToken(Snapshot(shell)) = VerbEcho)
         => LET line == Snapshot(shell)
                printed == Rendered(CommandOutput(out'))
                body == SubSeq(printed, 1, Len(printed) - 1)
            IN /\ out'[1] = Nl /\ out'[2] = Col("WHITE") /\ EndsWithPrompt(out')
               /\ Len(printed) >= 1 /\ printed[Len(printed)] = 10
               /\ \A i \in 1..Len(body) : body[i] \notin {0, 10}
               /\ body # <<>> => (body[1] # 32 /\ body[Len(body)] # 32)
               /\ \A i \in 1..(Len(body) - 1) : ~(body[i] = 32 /\ body[i + 1] = 32)
               /\ split_whitespace(body) = Tail(split_whitespace(line))
               /\ NonBlanks(<<101, 99, 104, 111>> \o body) = NonBlanks(line)
               /\ line = <<101, 99, 104, 111, 32, 97, 32, 32, 98, 32>>
                     => printed = <<97, 32, 98, 10>>
               /\ trim(line) = VerbEcho => printed = <<10>>]_vars

\* C22 witness: the line " echo  a b c  " was dispatched and printed "a b c"
C22_Witness ==
    /\ last_char = 10
    /\ out = <<Nl, Col("WHITE"), Chars(<<97>>), Text(" "), Chars(<<98>>), Text(" "),
               Chars(<<99>>), Nl>> \o PromptOutput


\* the first items each command handler prints
Banner(verb) ==
    CASE verb = VerbHelp    -> <<Col("CYAN"), Text("=== Rust OS Shell Commands ===")>>
      [] verb = VerbClear   -> <<ClearScreen, Col("CYAN")>>
      [] verb = VerbVersion -> <<Col("CYAN"), Text("=== Rust OS Version Information ===")>>
      [] verb = VerbEcho    -> <<Col("WHITE")>>
      [] verb = VerbUptime  -> IF time_manager.initialized
                               THEN <<Col("CYAN"), Text("=== System Uptime ===")>>
                               ELSE <<Col("RED"), Text("Time system not initialized!")>>
      [] verb = VerbSysinfo -> <<Col("CYAN"), Text("=== System Information ===")>>
      [] verb = VerbStats   -> <<Col("CYAN"), Text("=== Shell Statistics ===")>>

Verbs == {VerbHelp, VerbClear, VerbVersion, VerbEcho, VerbUptime, VerbSysinfo, VerbStats}

\* C23: the verb of a dispatched line is its first whitespace-delimited token,
\* whatever blanks surround it, matched case-sensitively against the seven
\* verbs; any other token runs no handler and prints, in red, the
\* unknown-command error naming the token and, in yellow, the hint to run help.
C23_VerbIsFirstTokenCaseSensitive ==
    [][(last_char' = 10 /\ HasNonBlank(Snapshot(shell)))
         => LET verb == FirstToken(Snapshot(shell))
                printed == CommandOutput(out')
            IN /\ out'[1] = Nl /\ EndsWithPrompt(out')
               /\ verb \in Verbs
                     => /\ SubSeq(printed, 1, Len(Banner(verb))) = Banner(verb)
                        /\ \A i \in 1..Len(printed) : printed[i] # Text("Unknown command: '")
               /\ verb \notin Verbs
                     => printed = <<Col("RED"), Text("Unknown command: '"), Chars(verb),
                                    Text("'"), Nl, Col("YELLOW"),
                                    Text("Type 'help' for available commands."), Nl,
                                    Col("WHITE")>>]_vars

\* C23 witness: the line HELP was dispatched and named in the error
C23_Witness ==
    /\ last_char = 10
    /\ out = <<Nl, Col("RED"), Text("Unknown command: '"), Chars(<<72, 69, 76, 80>>),
               Text("'"), Nl, Col("YELLOW"), Text("Type 'help' for available commands."),
               Nl, Col("WHITE")>> \o PromptOutput


\* the items of the output `o`
Items(o) == {o[i] : i \in 1..Len(o)}

\* C25: in every reachable state of the shell and the clock, the stats command
\* divides by no zero, whether it is run there or has just been run: the
\* average time per command is printed exactly when the clock is initialized,
\* uptime_ms > 0 and command_count > 0, the commands per minute exactly when
\* the clock is initialized and the uptime in whole seconds is > 0; otherwise
\* the line is left out.
C25_StatsNeverDividesByZero ==
    LET stats == cmd_stats(shell, time_manager)
        ms == get_uptime_ms(time_manager)
    IN /\ DivideByZero \notin Items(stats)
       /\ DivideByZero \notin Items(out)
       /\ Text("Avg time per command: ") \in Items(stats)
             <=> (time_manager.initialized /\ ms > 0 /\ shell.command_count > 0)
       /\ Text("  Commands per minute: ") \in Items(stats)
             <=> (time_manager.initialized /\ ms \div 1000 > 0)
       /\ Text("=== Shell Statistics ===") \in Items(out)
             => /\ Text("Avg time per command: ") \in Items(out) <=> ms > 0
                /\ Text("  Commands per minute: ") \in Items(out) <=> ms \div 1000 > 0

\* C25 witness: stats has run as the first command 10 ms after the clock
\* started: the average is printed (10 / 1), the commands per minute are not
C25_Witness ==
    /\ Text("=== Shell Statistics ===") \in Items(out)
    /\ time_manager.initialized /\ get_uptime_ms(time_manager) = 10
    /\ Num(10, "") \in Items(out)
    /\ Text("  Commands per minute: ") \notin Items(out)


-----------------------------------------------------------------------------
(* Properties of the unmapped scancodes (checked under Spec).              *)

\* the key presses scancode_to_char has a character for
MappedScancodes == (2 .. 28) \cup (30 .. 41) \cup (43 .. 53) \cup {57}

\* the keyboard handler runs for a key press that is no modifier and has no
\* character
UnmappedRun ==
    /\ hpc \in KeyboardPcs
    /\ scancode < 128
    /\ scancode \notin {42, 54, 58}
    /\ scancode \notin MappedScancodes

\* C24: for a key press that is no modifier and has no mapping
\* scancode_to_char returns None; the handler prints the scancode in decimal
\* between brackets (in yellow), changes neither the Shell (input_buffer,
\* buffer_pos, command_count) nor the KeyboardState, and ends with the
\* acknowledgment, holding no lock when it returns.
C24_UnmappedScancodeDiagnostic ==
    /\ [](hpc = "kbd_unmapped" => (UnmappedRun /\ decoded.sc = scancode /\ decoded.result = None))
    /\ [][UnmappedRun
            => (/\ shell' = shell
                /\ keyboard_state' = keyboard_state
                /\ hpc = "kbd_entry"
                      => (hpc' = "kbd_unmapped" /\ decoded'.result = None /\ out' = out)
                /\ hpc = "kbd_unmapped"
                      => (/\ out' = out \o <<Col("YELLOW"), Text("["), Num(scancode, "{}"),
                                              Text("]"), Col("WHITE")>>
                          /\ eoi_issued' = eoi_issued
                          /\ hpc' = "kbd_eoi")
                /\ hpc = "kbd_eoi"
                      => (/\ out' = out
                          /\ eoi_issued'.keyboard = eoi_issued.keyboard + 1
                          /\ port_log' = <<W(PIC1_COMMAND, PIC_EOI)>>
                          /\ irq_locks' = {}
                          /\ hpc' = "idle"))]_vars

\* C24 witness: Esc (scancode 1) was pressed after a character was typed and
\* Caps Lock switched on; the diagnostic is shown, the acknowledgment is next
C24_Witness ==
    /\ hpc = "kbd_eoi"
    /\ scancode = 1
    /\ out = <<Col("YELLOW"), Text("["), Num(1, "{}"), Text("]"), Col("WHITE")>>
    /\ shell.buffer_pos = 1
    /\ keyboard_state.caps_lock


-----------------------------------------------------------------------------
(* Properties of a held key (checked under SpecHeldKey).                   *)

\* C30: the keyboard handler shows an ordinary character as typed input only
\* if the shell appended it to its buffer: in a run in which add_char dropped
\* the character (buffer full, BUFFER FULL shown) the character is not echoed.
C30_EchoOnlyIfAppended ==
    hpc = "kbd_eoi" /\ Chars(<<decoded.result.ch>>) \in Items(out)
       => /\ Text(" [BUFFER FULL] ") \notin Items(out)
          /\ shell.buffer_pos > 0
          /\ shell.input_buffer[shell.buffer_pos - 1] = decoded.result.ch


-----------------------------------------------------------------------------
(* Properties of the timer driver (checked under SpecPit).                 *)

\* the writes among `ws` that go to one of `ports`, in order
RECURSIVE WritesTo(_, _)
WritesTo(ws, ports) ==
    IF ws = <<>> THEN <<>>
    ELSE (IF Head(ws).port \in ports THEN <<Head(ws)>> ELSE <<>>) \o WritesTo(Tail(ws), ports)

\* C29: Pit::initialize writes the mode-select byte 0x34 to the command port,
\* then the low byte and then the high byte of the divisor to channel 0, and
\* nothing else to those two ports; the divisor is 1193182 / 100 = 11931 <
\* 65536, low + 256 * high = 11931, and channel 0 ends as a rate generator
\* (mode 2) counting 11931 whatever state it was in; get_interval_ms() =
\* 1000 / get_frequency() = 10.
C29_PitProgrammedLowThenHigh ==
    pit.initialized
       => LET ws == WritesTo(port_log, {PIT_COMMAND, PIT_CHANNEL_0})
          IN /\ Len(ws) = 3
             /\ ws[1] = W(67, 52)
             /\ ws[2].port = 64 /\ ws[3].port = 64
             /\ ws[2].value \in 0 .. 255 /\ ws[3].value \in 0 .. 255
             /\ ws[2].value + 256 * ws[3].value = 11931
             /\ DIVISOR = 11931 /\ PIT_BASE_FREQUENCY \div TARGET_FREQUENCY = DIVISOR
             /\ pit_device.mode = 2 /\ pit_device.access = 3
             /\ pit_device.reload = 11931 /\ pit_device.next = "low"
             /\ get_interval_ms = 10 /\ get_interval_ms = 1000 \div get_frequency

\* C29 witness: initialize has run on a channel that was waiting for the high
\* byte of an earlier count
C29_Witness ==
    /\ pit.initialized
    /\ port_log = <<W(67, 52), W(128, 0), W(64, 155), W(128, 0), W(64, 46), W(128, 0)>>
    /\ pit_device = [mode |-> 2, access |-> 3, next |-> "low", low |-> 155, reload |-> 11931]

-----------------------------------------------------------------------------
(* The pixels of the Writer.  Pixel (x, y) of the surface is the             *)
(* bytes_per_pixel bytes at (y * width + x) * bytes_per_pixel, where         *)
(* write_pixel puts it; a row is width * bytes_per_pixel bytes.              *)

\* the bytes of a pixel of colour `color`: blue, green, red, alpha
PixelBytes(color, bpp) == SubSeq(<<color.b, color.g, color.r, 255>>, 1, bpp)

\* the bytes at a pixel's offset
PixelAt(buf, offset, bpp) == SubSeq(buf, offset + 1, offset + bpp)

\* the offsets of the pixels of the surface that the slice holds whole, in the
\* rows from `top` down
PixelsHeld(w, buf, bpp, top) ==
    { (y * w.width + x) * bpp : x \in 0..(w.width - 1), y \in top..(w.height - 1) }
      \cap { o \in 0..Len(buf) : o + bpp <= Len(buf) }

\* C26: after clear_screen every pixel of the surface (that the slice holds)
\* is the background colour, and the cursor is at (0, 0), whatever the
\* geometry and the slice.
C26_ClearScreenFillsSurface ==
    pixel_call.op = "clear_screen"
        => /\ writer.cursor_x = 0 /\ writer.cursor_y = 0
           /\ \A o \in PixelsHeld(writer, buffer, bytes_per_pixel, 0) :
                 PixelAt(buffer, o, bytes_per_pixel) = PixelBytes(BLACK, bytes_per_pixel)

\* C27: after scroll_up every byte of a row y < height - char_height is the
\* byte that row y + char_height held at the same place before (where the
\* slice held one), every pixel of the rows from height - char_height down is
\* the background colour, cursor_y is height - char_height and cursor_x is as
\* the caller left it: 0 after the newline that scrolled, one glyph further
\* once write_char has drawn its glyph into the cleared rows.
C27_ScrollMovesRowsUpOneGlyph ==
    (pixel_call.op = "write_char" /\ pixel_call.scrolled)
        => LET line_bytes == writer.width * bytes_per_pixel
               kept == writer.height - char_height
           IN /\ \A d \in 0..(kept * line_bytes - 1) :
                    d + char_height * line_bytes < Len(buffer)
                        => buffer[d + 1] =
                              pixel_call.before.buffer[d + char_height * line_bytes + 1]
              /\ writer.cursor_y = kept
              /\ writer.cursor_x = (IF pixel_call.ch = 10 THEN 0 ELSE char_width)
              /\ pixel_call.ch = 10
                    => \A o \in PixelsHeld(writer, buffer, bytes_per_pixel, kept) :
                          PixelAt(buffer, o, bytes_per_pixel)
                             = PixelBytes(BLACK, bytes_per_pixel)

\* C27 witness: a newline has scrolled the 1 x 33 surface of 4-byte pixels:
\* seventeen rows moved up, sixteen cleared
C27_Witness ==
    /\ pixel_call.op = "write_char" /\ pixel_call.ch = 10 /\ pixel_call.scrolled
    /\ writer.height = 33 /\ Len(buffer) = 132
    /\ pixel_call.before.buffer = SurfaceBytes(132)
    /\ SubSeq(buffer, 1, 68) = SubSeq(SurfaceBytes(132), 65, 132)
    /\ PixelAt(buffer, 128, 4) = <<0, 0, 0, 255>>
    /\ writer.cursor_y = 17

\* the slice indices the last call wrote
Written == { pixel_call.written[k] : k \in DOMAIN pixel_call.written }

\* C28: no call reads or writes a byte at an index >= buffer.len(), and every
\* pixel is written whole or not at all, a pixel the slice does not hold whole
\* not at all.
C28_PixelsWrittenWholeOrNotAtAll ==
    /\ \A k \in DOMAIN pixel_call.read : pixel_call.read[k] < Len(buffer)
    /\ \A k \in DOMAIN pixel_call.written : pixel_call.written[k] < Len(buffer)
    /\ \A o \in { i \in 0..(Len(buffer) - 1) : i % bytes_per_pixel = 0 } :
          LET bytes == o..(o + bytes_per_pixel - 1)
          IN \/ bytes \cap Written = {}
             \/ bytes \subseteq Written /\ o + bytes_per_pixel <= Len(buffer)

-----------------------------------------------------------------------------
(* The breakdown of the uptime.                                              *)

\* C33: the breakdown get_uptime_formatted returns has hours < 24,
\* minutes < 60, seconds < 60, milliseconds < 1000; its parts add up to
\* total_ms, which is system_ticks * ms_per_tick of the clock read;
\* total_seconds is total_ms / 1000; short_format gives days * 24 + hours,
\* the minutes and the seconds.
C33_UptimeBreakdownAddsUp ==
    uptime_read.reads > 0
        => LET u == uptime_read.info
               tm == uptime_read.of
           IN /\ u.days >= 0 /\ u.hours >= 0 /\ u.hours < 24
              /\ u.minutes >= 0 /\ u.minutes < 60
              /\ u.seconds >= 0 /\ u.seconds < 60
              /\ u.milliseconds >= 0 /\ u.milliseconds < 1000
              /\ ((u.days * 24 + u.hours) * 60 + u.minutes) * 60 * 1000
                    + u.seconds * 1000 + u.milliseconds = u.total_ms
              /\ u.total_ms = tm.system_ticks * tm.ms_per_tick
              /\ u.total_seconds = u.total_ms \div 1000
              /\ uptime_read.short = <<u.days * 24 + u.hours, u.minutes, u.seconds>>

\* C33 witness: a 100 Hz clock read at 1 d 2 h 3 min 4 s 50 ms: 26:03:04
C33_Witness ==
    /\ uptime_read.reads > 0
    /\ uptime_read.of = [system_ticks |-> 9378405, ms_per_tick |-> 10, initialized |-> TRUE]
    /\ uptime_read.info = [days |-> 1, hours |-> 2, minutes |-> 3, seconds |-> 4,
                           milliseconds |-> 50, total_ms |-> 93784050,
                           total_seconds |-> 93784]
    /\ uptime_read.short = <<26, 3, 4>>

-----------------------------------------------------------------------------
(* The bytes of the input buffer past the line (checked under SpecShell).    *)

\* C32: input_buffer[i] = 0 for every i >= buffer_pos, in every state of the
\* Shell; a backspace zeroes the byte it removes, a newline (the dispatch)
\* zeroes the whole buffer, and the last byte, index 255, is always 0.
C32_BufferZeroPastLine ==
    /\ [](\A i \in shell.buffer_pos..(INPUT_BUFFER_SIZE - 1) : shell.input_buffer[i] = 0)
    /\ [](shell.input_buffer[INPUT_BUFFER_SIZE - 1] = 0)
    /\ [][(last_char' = 8 /\ shell.buffer_pos > 0)
            => (/\ shell'.buffer_pos = shell.buffer_pos - 1
                /\ shell'.input_buffer[shell.buffer_pos - 1] = 0)]_vars
    /\ [][(last_char' = 10)
            => (/\ shell'.buffer_pos = 0
                /\ \A i \in 0..(INPUT_BUFFER_SIZE - 1) : shell'.input_buffer[i] = 0)]_vars

\* C32 witness: "help" was typed and its last letter erased: the buffer holds
\* "hel" and a zero where the 'p' was
C32_Witness ==
    /\ last_char = 8
    /\ shell.buffer_pos = 3
    /\ shell.input_buffer[0] = 104 /\ shell.input_buffer[1] = 101
    /\ shell.input_buffer[2] = 108
    /\ shell.input_buffer[3] = 0
    /\ edited

-----------------------------------------------------------------------------
(* The locks of a keyboard handler run (checked under SpecLocksFair).       *)

\* the running handler is about to call `M.lock()` for the mutex it names
Requests(m) ==
    /\ hpc = "kbd_run"
    /\ lock_ops # <<>>
    /\ Head(lock_ops).op = "lock"
    /\ Head(lock_ops).m = m

LockNames == {"KEYBOARD_STATE", "SHELL", "WRITER", "TIME_MANAGER", "PICS"}

\* C31: a run of keyboard_interrupt_handler never requests a spin lock that
\* the same run holds; while it holds SHELL it requests only the console and
\* the clock locks; and, no foreground code holding a lock, every run that was
\* entered issues its end-of-interrupt and returns.
C31_HandlerNeverLocksItself ==
    /\ [](\A m \in LockNames : Requests(m) => m \notin irq_locks)
    /\ [](\A m \in LockNames :
            (Requests(m) /\ "SHELL" \in irq_locks) => m \in {"WRITER", "TIME_MANAGER"})
    /\ \A n \in 1..MaxLockRuns :
          (keys_delivered = n) ~> (hpc = "idle" /\ eoi_issued.keyboard = n)

\* C31 witness: a Backspace on a line that had characters was handled to the
\* end: the shell was asked, locked again to erase, and the run has returned
\* with its end-of-interrupt issued and no lock held.
C31_Witness ==
    /\ hpc = "idle"
    /\ scancode = 14
    /\ last_char = 8
    /\ shell.buffer_pos = 4
    /\ out = <<Backspace>>
    /\ eoi_issued.keyboard = 1
    /\ irq_locks = {}

====
